---- MODULE Spec2Model ----
(***************************************************************************)
(* A model of the rust-raytracer rendering core: ray/sphere intersection   *)
(* (sphere.rs), the closest-hit scan, the recursive integrator ray_color   *)
(* and the fork-join scanline renderer (raytracer.rs), with the material   *)
(* scatter functions (materials.rs).                                       *)
(*                                                                         *)
(* Floating-point values are the values of IEEE 754 binary64 (f64): a     *)
(* sign, a significand of 53 bits held in two words, an exponent, with the *)
(* subnormal values, the two zeros, the two infinities and NaN.  Every     *)
(* operation rounds its exact result to the nearest value, ties to even.   *)
(* An f32 value is held as the f64 equal to it, and an f32 operation       *)
(* rounds the f64 result once more to the 24 bits and the range of f32.    *)
(*                                                                         *)
(* A function's intermediate values (the let bindings of the source) are   *)
(* passed as parameters from one definition to the next.                   *)
(***************************************************************************)
EXTENDS Integers, Sequences, FiniteSets, TLC

VARIABLES
    pc,         \* the position of the running function
    hin,        \* Sphere::hit: the call's arguments
    hout,       \* Sphere::hit: the returned Option<HitRecord>
    scene,      \* the Config being rendered, with the build profile
    lights,     \* find_lights(scene.objects)
    stack,      \* the active ray_color invocations, innermost last
    ret,        \* the value a ray_color invocation has just returned
    last,       \* what the invocation that returned last did
    calls,      \* the number of ray_color invocations entered so far
    rng,        \* ray_color: how many of the draws still to come at the gate are not 0.0
    env,        \* render: the random draws and the build's float-to-byte conversion
    pixels,     \* render: the pixel buffer
    bands,      \* render: the band tasks of the parallel loop
    writers,    \* render: for each byte of the buffer, the bands that wrote it, in order
    written     \* render: the arguments of each invocation of write_image

hitVars == <<hin, hout>>
traceVars == <<scene, lights, stack, ret, last, calls, rng>>
renderVars == <<env, pixels, bands, writers, written>>
vars == <<pc, hin, hout, scene, lights, stack, ret, last, calls, rng,
          env, pixels, bands, writers, written>>

----------------------------------------------------------------------------
(* f64 / f32 arithmetic *)

\* A value is <<s, hi, lo, e>>: the sign s (1 or -1), the significand
\* m = hi * 2^28 + lo with 0 <= lo < 2^28, and the exponent e of the number
\* s * m * 2^e.  As in f64, a normal value has 2^52 <= m < 2^53 and
\* -1074 <= e <= 971, a subnormal value has m < 2^52 and e = -1074;
\* <<s, 0, 0, 0>> is the zero of sign s, <<s, 1, 0, 9999>> the infinity of
\* sign s and <<1, 0, 0, 9999>> is NaN.  An f32 value is the f64 value equal
\* to it.
Pow2(k) == 2^k

\* the tuples of integers: the domain of the operations below, which are
\* functions of their operands
Words == Seq(Int)

Abs(n) == IF n < 0 THEN -n ELSE n

BitLen4(n) == IF n < 2 THEN n ELSE IF n < 4 THEN 2 ELSE IF n < 8 THEN 3 ELSE 4
BitLen8(n) == (IF n < 16 THEN 0 ELSE 4) + BitLen4(IF n < 16 THEN n ELSE n \div 16)
BitLen16(n) == (IF n < 256 THEN 0 ELSE 8) + BitLen8(IF n < 256 THEN n ELSE n \div 256)
\* the number of bits of n, for 0 <= n < 2^31
BitLen(n) ==
    (IF n < 65536 THEN 0 ELSE 16) + BitLen16(IF n < 65536 THEN n ELSE n \div 65536)

SignedZero(s) == <<s, 0, 0, 0>>
Infinity(s) == <<s, 1, 0, 9999>>
Zero == <<1, 0, 0, 0>>
NegZero == <<-1, 0, 0, 0>>
One == <<1, 16777216, 0, -52>>
Half == <<1, 16777216, 0, -53>>
Two == <<1, 16777216, 0, -51>>
MinusOne == <<-1, 16777216, 0, -52>>
PosInf == <<1, 1, 0, 9999>>
NegInf == <<-1, 1, 0, 9999>>
NaN == <<1, 0, 0, 9999>>
\* f64::EPSILON = 2^-52
EPSILON == <<1, 16777216, 0, -104>>

IsNaN(p) == p[4] = 9999 /\ p[2] = 0
IsInf(p) == p[4] = 9999 /\ p[2] = 1
IsZero(p) == p[4] # 9999 /\ p[2] = 0 /\ p[3] = 0

\* the value of significand <<hi, lo>> <= 2^53 and exponent e >= -1074: a
\* significand of 2^53 is 2^52 at the next exponent, a value of 2^1024 or
\* more is an infinity
Make(s, hi, lo, e) ==
    IF hi = 0 /\ lo = 0 THEN SignedZero(s)
    ELSE IF hi >= 33554432
    THEN (IF e >= 971 THEN Infinity(s) ELSE <<s, 16777216, 0, e + 1>>)
    ELSE IF e > 971 THEN Infinity(s)
    ELSE <<s, hi, lo, e>>

\* a subnormal value with its significand moved up by k bits to 53 bits
NormShift(p, k) ==
    IF k >= 28 THEN <<p[1], p[3] * Pow2(k - 28), 0, p[4] - k>>
    ELSE <<p[1], p[2] * Pow2(k) + p[3] \div Pow2(28 - k),
           (p[3] % Pow2(28 - k)) * Pow2(k), p[4] - k>>
Norm(p) ==
    IF p[2] >= 16777216 THEN p
    ELSE NormShift(p, 53 - BitLen(IF p[2] = 0 THEN p[3] ELSE p[2])
                        - (IF p[2] = 0 THEN 0 ELSE 28))

\* A window is a number H * 2^56 + L * 2^28 + X of three words of 28 bits,
\* followed by a fraction that is nonzero when st holds.

\* round to nearest, ties to even: q is the quotient, rem the remainder of
\* the word that is cut, half the weight of its first bit, and lower tells
\* whether anything below that word is nonzero; the result is <<qhi, q>>,
\* where q may reach 2^28
RoundUp(qhi, q, rem, half, lower) ==
    <<qhi, IF rem > half \/ (rem = half /\ (lower \/ q % 2 = 1)) THEN q + 1 ELSE q>>
\* the words H, L divided by 2^j, 1 <= j <= 28, and rounded
RoundAt(H, L, lower, j) ==
    RoundUp(H \div Pow2(j), (H % Pow2(j)) * Pow2(28 - j) + L \div Pow2(j),
            L % Pow2(j), Pow2(j - 1), lower)
\* the window divided by 2^drop, drop >= 29, and rounded
ShiftRound(H, L, X, st, drop) ==
    IF drop > 84 THEN <<0, 0>>
    ELSE RoundAt(IF drop > 56 THEN 0 ELSE H,
                 IF drop > 56 THEN H ELSE L,
                 IF drop > 56 THEN (L # 0 \/ X # 0 \/ st) ELSE (X # 0 \/ st),
                 IF drop > 56 THEN drop - 56 ELSE drop - 28)

PackMake(s, r, e) == Make(s, r[1] + r[2] \div 268435456, r[2] % 268435456, e)
PackRound(s, H, L, X, st, e, drop) ==
    PackMake(s, ShiftRound(H, L, X, st, drop), e + drop)
\* the f64 nearest to the window times 2^e, for 2^27 <= H < 2^28: 53 bits
\* are kept, fewer below the normal range
PackNormal(s, H, L, X, st, e) ==
    PackRound(s, H, L, X, st, e, IF e >= -1105 THEN 31 ELSE -1074 - e)
PackShift(s, H, L, X, st, e, k) ==
    PackNormal(s,
               H * Pow2(k) + L \div Pow2(28 - k),
               (L % Pow2(28 - k)) * Pow2(k) + X \div Pow2(28 - k),
               (X % Pow2(28 - k)) * Pow2(k),
               st, e - k)

\* the f64 nearest to s * window * 2^e
RECURSIVE PackAt
PackAt[w \in Words, st \in BOOLEAN] ==
    IF w[2] = 0
    THEN (IF w[3] = 0 /\ w[4] = 0 THEN SignedZero(w[1])
          ELSE PackAt[<<w[1], w[3], w[4], 0, w[5] - 28>>, st])
    ELSE PackShift(w[1], w[2], w[3], w[4], st, w[5], 28 - BitLen(w[2]))
Pack(s, H, L, X, st, e) == PackAt[<<s, H, L, X, e>>, st]

\* an integer as f64
FromIntAt ==
    [n \in Int |->
        Pack(IF n < 0 THEN -1 ELSE 1, 0, Abs(n) \div 268435456, Abs(n) % 268435456,
             FALSE, 0)]
FromInt(n) == FromIntAt[n]

\* a value as f32: 24 bits are kept, fewer below the normal range of f32; a
\* magnitude of 2^128 or more is an infinity
F32Range(p) == IF p[4] # 9999 /\ p[4] > 75 THEN Infinity(p[1]) ELSE p
F32Make(s, r, k, e) == F32Range(Make(s, r[2] * Pow2(k), 0, e))
F32Round(p, drop) ==
    IF drop > 84 THEN SignedZero(p[1])
    ELSE F32Make(p[1],
                 ShiftRound(p[2] * 8 + p[3] \div 33554432, (p[3] % 33554432) * 8,
                            0, FALSE, drop),
                 drop - 59, p[4])
F32Norm(p) == F32Round(p, IF p[4] >= -178 THEN 60 ELSE -118 - p[4])
AsF32At == [p \in Words |-> IF p[4] = 9999 \/ IsZero(p) THEN p ELSE F32Norm(Norm(p))]
AsF32(p) == AsF32At[p]

RNeg(p) == IF IsNaN(p) THEN NaN ELSE <<-p[1], p[2], p[3], p[4]>>
RAbs(p) == <<1, p[2], p[3], p[4]>>

\* -1, 0 or 1: the sign of a value other than NaN, both zeros having sign 0
Sgn(p) == IF IsZero(p) THEN 0 ELSE p[1]
\* |p| < |q| for nonzero values other than NaN
MagLt(p, q) ==
    \/ p[4] < q[4]
    \/ p[4] = q[4] /\ (p[2] < q[2] \/ (p[2] = q[2] /\ p[3] < q[3]))

RLt(p, q) ==
    /\ ~IsNaN(p) /\ ~IsNaN(q)
    /\ \/ Sgn(p) < Sgn(q)
       \/ Sgn(p) = 1 /\ Sgn(q) = 1 /\ MagLt(p, q)
       \/ Sgn(p) = -1 /\ Sgn(q) = -1 /\ MagLt(q, p)
RLe(p, q) == ~IsNaN(p) /\ ~IsNaN(q) /\ ~RLt(q, p)
RGt(p, q) == RLt(q, p)
RGe(p, q) == RLe(q, p)
\* p == q
REq(p, q) == RLe(p, q) /\ RLe(q, p)
\* f64::min: a NaN operand is ignored
RMin(p, q) ==
    IF IsNaN(p) THEN q
    ELSE IF IsNaN(q) THEN p
    ELSE IF RLt(q, p) THEN q ELSE p

\* the significand <<qh, ql>> moved down by d bits, 0 <= d < 56: three words
\* and whether a set bit was lost
AddShifted(qh, ql, d) ==
    IF d < 28
    THEN <<qh \div Pow2(d),
           (qh % Pow2(d)) * Pow2(28 - d) + ql \div Pow2(d),
           (ql % Pow2(d)) * Pow2(28 - d),
           FALSE>>
    ELSE <<0,
           qh \div Pow2(d - 28),
           (qh % Pow2(d - 28)) * Pow2(56 - d) + ql \div Pow2(d - 28),
           ql % Pow2(d - 28) # 0>>

\* |p| + sg * |b| word by word from the lowest, sg = 1 or -1, |p| > |b|
AddHigh(p, b, sg, l0, x0) ==
    Pack(p[1], p[2] + sg * b[1] + l0 \div 268435456, l0 % 268435456,
         x0 % 268435456, b[4], p[4] - 28)
AddLow(p, b, sg, x0) == AddHigh(p, b, sg, p[3] + sg * b[2] + x0 \div 268435456, x0)
AddSigned(p, b, sg) ==
    AddLow(p, b, sg, sg * b[3] - (IF sg < 0 /\ b[4] THEN 1 ELSE 0))

\* p + q for nonzero finite values with |p| >= |q|, d the difference of their
\* exponents
AddOrdered(p, q, d) ==
    IF d >= 56 THEN p
    ELSE IF p[1] # q[1] /\ d = 0 /\ p[2] = q[2] /\ p[3] = q[3] THEN Zero
    ELSE AddSigned(p, AddShifted(q[2], q[3], d), p[1] * q[1])
AddPair(p, q) == AddOrdered(p, q, p[4] - q[4])

RAddAt ==
    [p \in Words, q \in Words |->
        IF IsNaN(p) \/ IsNaN(q) THEN NaN
        ELSE IF IsInf(p) THEN (IF IsInf(q) /\ q[1] # p[1] THEN NaN ELSE p)
        ELSE IF IsInf(q) THEN q
        ELSE IF IsZero(p) THEN (IF IsZero(q) /\ q[1] # p[1] THEN Zero ELSE q)
        ELSE IF IsZero(q) THEN p
        ELSE AddPair(IF MagLt(p, q) THEN q ELSE p, IF MagLt(p, q) THEN p ELSE q)]
RAdd(p, q) == RAddAt[p, q]

RSub(p, q) == RAdd(p, RNeg(q))

\* the product of two significands of four limbs of 14 bits: the columns
\* c0 .. c6 of the partial products, then the carries from the lowest up
Mul6(s, e, st, w1, p4, t5, c6) ==
    Pack(s, c6 + t5 \div 16384, (t5 % 16384) * 16384 + p4, w1, st, e)
Mul5(s, e, st, w1, t4, c5, c6) ==
    Mul6(s, e, st, w1, t4 % 16384, c5 + t4 \div 16384, c6)
Mul4(s, e, st, p2, t3, c4, c5, c6) ==
    Mul5(s, e, st, (t3 % 16384) * 16384 + p2, c4 + t3 \div 16384, c5, c6)
Mul3(s, e, st, t2, c3, c4, c5, c6) ==
    Mul4(s, e, st, t2 % 16384, c3 + t2 \div 16384, c4, c5, c6)
Mul2(s, e, st, t1, c2, c3, c4, c5, c6) ==
    Mul3(s, e, st \/ t1 % 16384 # 0, c2 + t1 \div 16384, c3, c4, c5, c6)
Mul1(s, e, c0, c1, c2, c3, c4, c5, c6) ==
    Mul2(s, e, c0 % 16384 # 0, c1 + c0 \div 16384, c2, c3, c4, c5, c6)
MulLimbs(s, e, a3, a2, a1, a0, b3, b2, b1, b0) ==
    Mul1(s, e,
         a0 * b0,
         a0 * b1 + a1 * b0,
         a0 * b2 + a1 * b1 + a2 * b0,
         a0 * b3 + a1 * b2 + a2 * b1 + a3 * b0,
         a1 * b3 + a2 * b2 + a3 * b1,
         a2 * b3 + a3 * b2,
         a3 * b3)
MulNormal(p, q) ==
    MulLimbs(p[1] * q[1], p[4] + q[4] + 28,
             p[2] \div 16384, p[2] % 16384, p[3] \div 16384, p[3] % 16384,
             q[2] \div 16384, q[2] % 16384, q[3] \div 16384, q[3] % 16384)

RMulAt ==
    [p \in Words, q \in Words |->
        IF IsNaN(p) \/ IsNaN(q) THEN NaN
        ELSE IF IsInf(p) \/ IsInf(q)
        THEN (IF IsZero(p) \/ IsZero(q) THEN NaN ELSE Infinity(p[1] * q[1]))
        ELSE IF IsZero(p) \/ IsZero(q) THEN SignedZero(p[1] * q[1])
        ELSE MulNormal(Norm(p), Norm(q))]
RMul(p, q) == RMulAt[p, q]

\* long division by the significand <<bh, bl>>, six bits at a time, as a
\* function of <<rh, rl, bh, bl, n, ah, al>>: the remainder <<rh, rl>> is
\* below the divisor, n steps are left, <<ah, al>> is the quotient so far;
\* the result is <<ah, al, whether the remainder is nonzero>>
RECURSIVE DivSteps
\* the remainder h * 2^28 + l less the divisor where the digit d, an estimate
\* from the high words, was one too small
DivDigit(h, l, bh, bl, n, ah, al, d) ==
    IF h > bh \/ (h = bh /\ l >= bl)
    THEN DivSteps[<<h - bh + ((l - bl) \div 268435456), (l - bl) % 268435456,
                    bh, bl, n - 1, ah, al + d + 1>>]
    ELSE DivSteps[<<h, l, bh, bl, n - 1, ah, al + d>>]
\* 64 * remainder - d * divisor, l0 its low word before the borrow
DivBorrow(Rh, l0, bh, bl, n, ah, al, d, th) ==
    DivDigit(Rh - th + (l0 \div 268435456), l0 % 268435456, bh, bl, n, ah, al, d)
\* d * divisor from the two halves of bl
DivTimes(Rh, Rl, bh, bl, n, ah, al, d, tm, tl) ==
    DivBorrow(Rh, Rl - ((tl + (tm % 16384) * 16384) % 268435456), bh, bl, n, ah, al, d,
              d * bh + tm \div 16384 + (tl + (tm % 16384) * 16384) \div 268435456)
DivEstimate(Rh, Rl, bh, bl, n, ah, al, d) ==
    DivTimes(Rh, Rl, bh, bl, n, ah, al, d, d * (bl \div 16384), d * (bl % 16384))
DivSteps[r \in Words] ==
    IF r[5] = 0 THEN <<r[6], r[7], r[1] # 0 \/ r[2] # 0>>
    ELSE DivEstimate(r[1] * 64 + r[2] \div 4194304, (r[2] % 4194304) * 64,
                     r[3], r[4], r[5],
                     r[6] * 64 + r[7] \div 4194304, (r[7] % 4194304) * 64,
                     (r[1] * 64 + r[2] \div 4194304) \div (r[3] + 1))

DivPack(s, q, e) == Pack(s, q[1], q[2], 0, q[3], e - 82)
\* the first digit is 1 where the dividend's significand is not below the
\* divisor's (ge)
DivFirst(s, p, q, ge, e) ==
    DivPack(s,
            DivSteps[<<IF ge THEN p[2] - q[2] + ((p[3] - q[3]) \div 268435456) ELSE p[2],
                       IF ge THEN (p[3] - q[3]) % 268435456 ELSE p[3],
                       q[2], q[3], 9, 0, IF ge THEN 1 ELSE 0>>],
            e)
DivNormal(p, q) ==
    DivFirst(p[1] * q[1], p, q, p[2] > q[2] \/ (p[2] = q[2] /\ p[3] >= q[3]),
             p[4] - q[4])

RDivAt ==
    [p \in Words, q \in Words |->
        IF IsNaN(p) \/ IsNaN(q) THEN NaN
        ELSE IF IsInf(p) THEN (IF IsInf(q) THEN NaN ELSE Infinity(p[1] * q[1]))
        ELSE IF IsInf(q) THEN SignedZero(p[1] * q[1])
        ELSE IF IsZero(q) THEN (IF IsZero(p) THEN NaN ELSE Infinity(p[1] * q[1]))
        ELSE IF IsZero(p) THEN SignedZero(p[1] * q[1])
        ELSE DivNormal(Norm(p), Norm(q))]
RDiv(p, q) == RDivAt[p, q]

\* n / d in f64
Q(n, d) == RDiv(FromInt(n), FromInt(d))

\* a * b + c rounded once (the fused multiply-add of the vfmadd instructions).
\* A frame is a number of six words of 28 bits, the lowest first.

\* the exact product of two significands of four limbs of 14 bits: the
\* columns c0 .. c6 of the partial products, then the carries from the lowest
\* up, in a frame
FmaMul7(l0, l1, l2, l3, l4, l5, t6) ==
    <<l1 * 16384 + l0, l3 * 16384 + l2, l5 * 16384 + l4, t6, 0, 0>>
FmaMul6(l0, l1, l2, l3, l4, t5, c6) ==
    FmaMul7(l0, l1, l2, l3, l4, t5 % 16384, c6 + t5 \div 16384)
FmaMul5(l0, l1, l2, l3, t4, c5, c6) ==
    FmaMul6(l0, l1, l2, l3, t4 % 16384, c5 + t4 \div 16384, c6)
FmaMul4(l0, l1, l2, t3, c4, c5, c6) ==
    FmaMul5(l0, l1, l2, t3 % 16384, c4 + t3 \div 16384, c5, c6)
FmaMul3(l0, l1, t2, c3, c4, c5, c6) ==
    FmaMul4(l0, l1, t2 % 16384, c3 + t2 \div 16384, c4, c5, c6)
FmaMul2(l0, t1, c2, c3, c4, c5, c6) ==
    FmaMul3(l0, t1 % 16384, c2 + t1 \div 16384, c3, c4, c5, c6)
FmaMul1(c0, c1, c2, c3, c4, c5, c6) ==
    FmaMul2(c0 % 16384, c1 + c0 \div 16384, c2, c3, c4, c5, c6)
FmaLimbs(a3, a2, a1, a0, b3, b2, b1, b0) ==
    FmaMul1(a0 * b0,
            a0 * b1 + a1 * b0,
            a0 * b2 + a1 * b1 + a2 * b0,
            a0 * b3 + a1 * b2 + a2 * b1 + a3 * b0,
            a1 * b3 + a2 * b2 + a3 * b1,
            a2 * b3 + a3 * b2,
            a3 * b3)
FmaProduct(p, q) ==
    FmaLimbs(p[2] \div 16384, p[2] % 16384, p[3] \div 16384, p[3] % 16384,
             q[2] \div 16384, q[2] % 16384, q[3] \div 16384, q[3] % 16384)

\* the frame f times 2^n, 0 <= n <= 112 (nothing is moved out of the frame)
FrameShiftAt ==
    [f \in Words, n \in Int |->
        [i \in 1..6 |->
            IF i - n \div 28 < 1 THEN 0
            ELSE (f[i - n \div 28] % Pow2(28 - (n % 28))) * Pow2(n % 28)
                 + (IF i - n \div 28 > 1
                    THEN f[i - n \div 28 - 1] \div Pow2(28 - (n % 28)) ELSE 0)]]
\* the words of t from word i up with the carry (or borrow) c taken in,
\* followed by the carry out of the frame
RECURSIVE FrameCarry
FrameCarry[t \in Words, i \in Int, c \in Int] ==
    IF i > 6 THEN <<c>>
    ELSE <<(t[i] + c) % 268435456>> \o FrameCarry[t, i + 1, (t[i] + c) \div 268435456]
\* f + sg * g, sg = 1 or -1
FrameSum ==
    [f \in Words, g \in Words, sg \in Int |->
        FrameCarry[[i \in 1..6 |-> f[i] + sg * g[i]], 1, 0]]

\* the f64 nearest to s * r * 2^e, k the highest nonzero word of the frame r
FrameWindow ==
    [s \in Int, r \in Words, k \in Int, e \in Int |->
        IF k = 0 THEN Zero
        ELSE Pack(s, r[k], IF k > 1 THEN r[k - 1] ELSE 0, IF k > 2 THEN r[k - 2] ELSE 0,
                  \E j \in 1..(k - 3) : r[j] # 0, e + 28 * (k - 3))]
FramePack ==
    [s \in Int, r \in Words, e \in Int |->
        FrameWindow[s, r,
                    IF r[6] # 0 THEN 6 ELSE IF r[5] # 0 THEN 5 ELSE IF r[4] # 0 THEN 4
                    ELSE IF r[3] # 0 THEN 3 ELSE IF r[2] # 0 THEN 2
                    ELSE IF r[1] # 0 THEN 1 ELSE 0,
                    e]]
\* sp * f * 2^e + sc * g * 2^e, r = f + g or f - g: a difference that
\* borrows out of the frame is g - f with the sign of g
FrameSigned ==
    [sp \in Int, sc \in Int, f \in Words, g \in Words, e \in Int, r \in Words |->
        FramePack[IF r[7] < 0 THEN sc ELSE sp,
                  IF r[7] < 0 THEN FrameSum[g, f, -1] ELSE r, e]]
FrameAdd ==
    [sp \in Int, sc \in Int, f \in Words, g \in Words, e \in Int |->
        FrameSigned[sp, sc, f, g, e, FrameSum[f, g, IF sp = sc THEN 1 ELSE -1]]]

\* a frame far below the other operand: it decides the rounding of a tie
\* and nothing else
FrameTiny == <<1, 0, 0, 0, 0, 0>>
\* the product sp * f * 2^ep plus c, d = c[4] - ep the distance of their
\* lowest bits: both in one frame, the lower of the two at its foot, or
\* FrameTiny for the one that lies wholly below the other
FmaAligned ==
    [sp \in Int, f \in Words, ep \in Int, c \in Words, d \in Int |->
        FrameAdd[sp, c[1],
                 IF d > 112 THEN FrameTiny
                 ELSE IF d >= 0 THEN f
                 ELSE FrameShiftAt[f, IF d >= -56 THEN -d ELSE 56],
                 IF d < -56 THEN FrameTiny
                 ELSE FrameShiftAt[<<c[3], c[2], 0, 0, 0, 0>>,
                                   IF d > 112 THEN 112 ELSE IF d >= 0 THEN d ELSE 0],
                 IF d > 112 THEN c[4] - 112
                 ELSE IF d >= 0 THEN ep
                 ELSE IF d >= -56 THEN c[4] ELSE ep - 56]]
\* a and b normalised, c normalised or zero
FmaNormal ==
    [a \in Words, b \in Words, c \in Words |->
        FmaAligned[a[1] * b[1], FmaProduct(a, b), a[4] + b[4], c,
                   IF c[2] = 0 THEN 0 ELSE c[4] - (a[4] + b[4])]]

RFmaAt ==
    [a \in Words, b \in Words, c \in Words |->
        IF IsNaN(a) \/ IsNaN(b) \/ IsNaN(c) THEN NaN
        ELSE IF IsInf(a) \/ IsInf(b)
        THEN (IF IsZero(a) \/ IsZero(b) \/ (IsInf(c) /\ c[1] # a[1] * b[1]) THEN NaN
              ELSE Infinity(a[1] * b[1]))
        ELSE IF IsInf(c) THEN c
        ELSE IF IsZero(a) \/ IsZero(b)
        THEN (IF IsZero(c) /\ c[1] # a[1] * b[1] THEN Zero ELSE c)
        ELSE FmaNormal[Norm(a), Norm(b), IF IsZero(c) THEN c ELSE Norm(c)]]
\* a.mul_add(b, c)
RFma(a, b, c) == RFmaAt[a, b, c]

IsqrtMid(lo, hi) == (lo + hi + 1) \div 2
RECURSIVE IsqrtAt
IsqrtAt[n \in Int, lo \in Int, hi \in Int] ==
    IF lo >= hi THEN lo
    ELSE IF IsqrtMid(lo, hi) * IsqrtMid(lo, hi) <= n
    THEN IsqrtAt[n, IsqrtMid(lo, hi), hi]
    ELSE IsqrtAt[n, lo, IsqrtMid(lo, hi) - 1]
IsqrtIn(n, lo, hi) == IsqrtAt[n, lo, hi]

\* floor of the square root of a natural number
Isqrt(n) == IsqrtIn(n, 0, IF n < 46340 THEN n ELSE 46340)

\* The square root of x * 2^56, x = x1 * 2^28 + x0 of 55 or 56 bits, from
\* the top down: s = floor(sqrt(x1)), then s1 = floor(sqrt(x)) with the
\* remainder r1, then the 28 bits q below s1.

\* 27 more bits of the quotient by s1, three at a time: <<quotient, remainder>>
RECURSIVE SqrtDigitsAt
SqrtDigitsAt[r \in Int, s1 \in Int, n \in Int, acc \in Int] ==
    IF n = 0 THEN <<acc, r>>
    ELSE SqrtDigitsAt[(r * 8) % s1, s1, n - 1, acc * 8 + (r * 8) \div s1]
SqrtDigits(r, s1, n, acc) == SqrtDigitsAt[r, s1, n, acc]

\* q^2 = w1 * 2^28 + w0 against the remainder 2 * u * 2^28: the root is
\* s1 * 2^28 + q, or one less where q^2 is the larger
SqrtCompare(s1, q, u2, w1, w0, e) ==
    Pack(1, s1, IF u2 < w1 \/ (u2 = w1 /\ w0 > 0) THEN q - 1 ELSE q, 0,
         u2 # w1 \/ w0 # 0, e)
SqrtSquare(s1, q, u2, hh, mid, low, e) ==
    SqrtCompare(s1, q, u2, hh + mid \div 16384 + low \div 268435456,
                low % 268435456, e)
SqrtLimbs(s1, q, u2, qh, ql, e) ==
    SqrtSquare(s1, q, u2, qh * qh, 2 * qh * ql,
               ql * ql + ((2 * qh * ql) % 16384) * 16384, e)
SqrtLow(s1, qu, e) ==
    SqrtLimbs(s1, qu[1], 2 * qu[2], qu[1] \div 16384, qu[1] % 16384, e)
SqrtSecond(s1, r1, e) ==
    SqrtLow(s1, SqrtDigits(r1 % s1, s1, 9, r1 \div s1), e)
\* s1 is one less where the remainder r1 is negative
SqrtFix(s1, r1, e) ==
    SqrtSecond(IF r1 < 0 THEN s1 - 1 ELSE s1, IF r1 < 0 THEN r1 + 2 * s1 - 1 ELSE r1, e)
SqrtFirst(s, a0, num, e) ==
    SqrtFix(s * 16384 + num \div (2 * s),
            (num % (2 * s)) * 16384 + a0
                - (num \div (2 * s)) * (num \div (2 * s)),
            e)
SqrtTop(x1, x0, s, e) ==
    SqrtFirst(s, x0 % 16384, (x1 - s * s) * 16384 + x0 \div 16384, e)
SqrtWords(x1, x0, e) == SqrtTop(x1, x0, IsqrtIn(x1, 0, 16383), e)
\* x = 4 * m for an even exponent, 8 * m for an odd one
SqrtShifted(p, sh) ==
    SqrtWords(p[2] * sh + p[3] \div (268435456 \div sh),
              (p[3] % (268435456 \div sh)) * sh, (p[4] - 58) \div 2 - 28)
SqrtNormal(p) == SqrtShifted(p, IF p[4] % 2 = 0 THEN 4 ELSE 8)

\* f64::sqrt
RSqrtAt ==
    [p \in Words |->
        IF IsNaN(p) \/ IsZero(p) THEN p
        ELSE IF p[1] < 0 THEN NaN
        ELSE IF IsInf(p) THEN p
        ELSE SqrtNormal(Norm(p))]
RSqrt(p) == RSqrtAt[p]

\* f64::floor: f is the number of bits below the unit, 1 <= f <= 52; a
\* negative value with a fraction goes down to the next integer (up = 1)
FloorUp(p, f, up) ==
    Pack(p[1],
         IF f >= 28 THEN (p[2] \div Pow2(f - 28) + up) * Pow2(f - 28) ELSE p[2],
         IF f >= 28 THEN 0 ELSE (p[3] \div Pow2(f) + up) * Pow2(f),
         0, FALSE, p[4] - 28)
FloorBits(p, f) ==
    FloorUp(p, f,
            IF p[1] < 0 /\ (IF f >= 28 THEN p[2] % Pow2(f - 28) # 0 \/ p[3] # 0
                                      ELSE p[3] % Pow2(f) # 0)
            THEN 1 ELSE 0)
RFloor(p) ==
    IF p[4] >= 0 \/ IsZero(p) THEN p
    ELSE IF p[4] < -52 THEN (IF p[1] = 1 THEN Zero ELSE RNeg(One))
    ELSE FloorBits(p, -p[4])

\* stands for usize::MAX where a usize is read as a number: far above every
\* index and every depth of the model
USIZE_MAX == 2147483647
\* truncation to an integer below 2^31 (a table row, a byte): NaN and the
\* negative values give 0
Trunc(p) ==
    IF IsNaN(p) \/ p[1] < 0 \/ IsZero(p) THEN 0
    ELSE IF p[4] > -22 THEN USIZE_MAX
    ELSE IF p[4] < -52 THEN 0
    ELSE IF p[4] <= -28 THEN p[2] \div Pow2(-p[4] - 28)
    ELSE p[2] * Pow2(28 + p[4]) + p[3] \div Pow2(-p[4])

\* the operations of f32: the f64 result rounded to f32 (with the 53 bits of
\* f64 this is the exact result rounded once)
FAdd(p, q) == AsF32(RAdd(p, q))
FSub(p, q) == AsF32(RSub(p, q))
FMul(p, q) == AsF32(RMul(p, q))
FDiv(p, q) == AsF32(RDiv(p, q))
FSqrt(p) == AsF32(RSqrt(p))
\* n / d in f32
F(n, d) == AsF32(Q(n, d))
\* 0.7 in f32
SevenTenths == F(7, 10)

(* Point3D *)

V3(x, y, z) == <<FromInt(x), FromInt(y), FromInt(z)>>
VAdd(a, b) == <<RAdd(a[1], b[1]), RAdd(a[2], b[2]), RAdd(a[3], b[3])>>
VSub(a, b) == <<RSub(a[1], b[1]), RSub(a[2], b[2]), RSub(a[3], b[3])>>
VNeg(a) == <<RNeg(a[1]), RNeg(a[2]), RNeg(a[3])>>
VScale(a, k) == <<RMul(a[1], k), RMul(a[2], k), RMul(a[3], k)>>
VDiv(a, k) == <<RDiv(a[1], k), RDiv(a[2], k), RDiv(a[3], k)>>
Dot(a, b) == RAdd(RAdd(RMul(a[1], b[1]), RMul(a[2], b[2])), RMul(a[3], b[3]))
LengthSquared(a) == Dot(a, a)
Length(a) == RSqrt(LengthSquared(a))
UnitVector(a) == VDiv(a, Length(a))
near_zero(v) ==
    /\ RLt(RAbs(v[1]), EPSILON)
    /\ RLt(RAbs(v[2]), EPSILON)
    /\ RLt(RAbs(v[3]), EPSILON)

\* Ray
Ray(origin, direction) == [origin |-> origin, direction |-> direction]
At(ray, t) == VAdd(ray.origin, VScale(ray.direction, t))

----------------------------------------------------------------------------
(* materials.rs: the Material enum, one record shape for every variant *)

Mat(kind, albedo, fuzz, ior) ==
    [kind |-> kind, albedo |-> albedo, fuzz |-> fuzz, ior |-> ior]
White == <<One, One, One>>
Black == <<Zero, Zero, Zero>>
Lambertian(albedo) == Mat("Lambertian", albedo, Zero, Zero)
Metal(albedo, fuzz) == Mat("Metal", albedo, fuzz, Zero)
Glass(ior) == Mat("Glass", White, Zero, ior)
Light == Mat("Light", White, Zero, Zero)
\* Texture: bytes is the decoded image, three bytes per pixel, row by row
Texture(albedo, bytes, width, height, h_offset) ==
    [kind |-> "Texture", albedo |-> albedo, fuzz |-> Zero, ior |-> Zero,
     pixels |-> bytes, width |-> width, height |-> height, h_offset |-> h_offset]
\* byte i of the buffer holds i, so that a color names the pixel it came from
TexBytes(width, height) == [i \in 1..(3 * width * height) |-> i - 1]

----------------------------------------------------------------------------
(* sphere.rs *)

Sphere(center, radius, material) ==
    [center |-> center, radius |-> radius, material |-> material]

\* std::f64::consts::PI
PI == <<1, 26353589, 71576856, -51>>
TwoPi == RMul(Two, PI)

\* f64::atan2 is the atan2 of the C library: the routine of glibc 2.36 for
\* x86-64 processors with fused multiply-add (sysdeps/ieee754/dbl-64/e_atan2.c
\* and its constants in atnat2.h and uatan.tbl), operation for operation.
\* pi / 2 to twice the precision is hpi + hpi1, pi is opi + opi1
hpi == <<1, 26353589, 71576856, -52>>
hpi1 == <<1, 18506339, 51665927, -106>>
opi == <<1, 26353589, 71576856, -51>>
opi1 == <<1, 18506339, 51665927, -105>>
\* pi / 4 and 3 * pi / 4
qpi == <<1, 26353589, 71576856, -53>>
tqpi == <<1, 19765191, 255009234, -51>>
\* the coefficients of z^3, z^5, ..., z^13 in the series of atan(z)
d3 == <<-1, 22369621, 89478485, -54>>
d5 == <<1, 26843545, 161060861, -55>>
d7 == <<-1, 19173961, 37713411, -55>>
d9 == <<1, 29826158, 85105211, -56>>
d11 == <<-1, 24401922, 45169701, -56>>
d13 == <<1, 20406024, 187812814, -56>>
inv16 == <<1, 16777216, 0, -56>>
TWO8 == <<1, 16777216, 0, -44>>
TWO52 == <<1, 16777216, 0, 0>>
two500 == <<1, 16777216, 0, 448>>
twom500 == <<1, 16777216, 0, -552>>
\* row i, for the quotients nearest to (i + 15) / 256: a point c0 near
\* (i + 15) / 256, c1 = atan(c0) and the coefficients c2 .. c6 of
\* atan(c0 + v) - atan(c0) = c2 * v + c3 * v^2 + ... + c6 * v^5
cij ==
    <<
      <<<<1, 17039462, 98575438, -56>>, <<1, 17016631, 190045472, -56>>, <<1, 33419772, 257751922, -53>>, <<-1, 16902972, 237692098, -56>>,
        <<-1, 21834221, 223912973, -54>>, <<1, 33399981, 151495050, -57>>, <<1, 25251316, 234248984, -55>>>>,
      <<<<1, 17825755, 163089624, -56>>, <<1, 17799622, 56906496, -56>>, <<1, 33407114, 64934671, -53>>, <<-1, 17669574, 110893805, -56>>,
        <<-1, 21784223, 118722018, -54>>, <<1, 17437426, 164660647, -56>>, <<1, 25104108, 265588000, -55>>>>,
      <<<<1, 18874133, 175363313, -56>>, <<1, 18843122, 200155200, -56>>, <<1, 33389364, 45444401, -53>>, <<-1, 18688891, 111012416, -56>>,
        <<-1, 21714211, 153283785, -54>>, <<1, 18413877, 36379140, -56>>, <<1, 24898261, 107016289, -55>>>>,
      <<<<1, 19922907, 38947490, -56>>, <<1, 19886446, 118984864, -56>>, <<1, 33370613, 62166692, -53>>, <<-1, 19705220, 179008372, -56>>,
        <<-1, 21640373, 148713394, -54>>, <<1, 19382445, 13552664, -56>>, <<1, 24681765, 220677079, -55>>>>,
      <<<<1, 20971488, 91485100, -56>>, <<1, 20928977, 117634720, -56>>, <<1, 33350875, 7449794, -53>>, <<-1, 20717814, 81475206, -56>>,
        <<-1, 21562782, 188481171, -54>>, <<1, 20342172, 183980013, -56>>, <<1, 24454801, 201400240, -55>>>>,
      <<<<1, 22019832, 155419862, -56>>, <<1, 21970640, 216138944, -56>>, <<1, 33330154, 149576193, -53>>, <<-1, 21726455, 190076873, -56>>,
        <<-1, 21481479, 67236601, -54>>, <<1, 21292619, 83259913, -56>>, <<1, 24217556, 206834551, -55>>>>,
      <<<<1, 23068557, 255878440, -56>>, <<1, 23012019, 208918560, -56>>, <<1, 33308443, 32902931, -53>>, <<-1, 22731564, 192915259, -56>>,
        <<-1, 21396450, 186561877, -54>>, <<1, 22233945, 166577251, -56>>, <<1, 23970226, 59723865, -55>>>>,
      <<<<1, 24117496, 206507350, -56>>, <<1, 24052916, 156905376, -56>>, <<1, 33285747, 68013719, -53>>, <<-1, 23732804, 228123053, -56>>,
        <<-1, 21307745, 67522033, -54>>, <<1, 23165602, 195529318, -56>>, <<1, 23713013, 10737580, -55>>>>,
      <<<<1, 25166075, 188766159, -56>>, <<1, 25092731, 237818784, -56>>, <<1, 33262083, 166498886, -53>>, <<-1, 24729459, 31049587, -56>>,
        <<-1, 21215451, 115113330, -54>>, <<1, 24086701, 110446559, -56>>, <<1, 23446127, 104058508, -55>>>>,
      <<<<1, 26214179, 164572031, -56>>, <<1, 26131321, 261594752, -56>>, <<1, 33237460, 55903969, -53>>, <<-1, 25721254, 163171765, -56>>,
        <<-1, 21119624, 100577193, -54>>, <<1, 24996779, 102308366, -56>>, <<1, 23169786, 130780085, -55>>>>,
      <<<<1, 27262870, 237963122, -56>>, <<1, 27169709, 53122176, -56>>, <<1, 33211856, 77851712, -53>>, <<-1, 26709029, 66513559, -56>>,
        <<-1, 21020208, 144455414, -54>>, <<1, 25896392, 140176247, -56>>, <<1, 22884214, 63626465, -55>>>>,
      <<<<1, 28311590, 51818647, -56>>, <<1, 28207308, 237292544, -56>>, <<1, 33185289, 59530342, -53>>, <<-1, 27692087, 116477515, -56>>,
        <<-1, 20917297, 110546300, -54>>, <<1, 26784695, 36318388, -56>>, <<1, 22589641, 6794594, -55>>>>,
      <<<<1, 29360262, 5200049, -56>>, <<1, 29244016, 90507136, -56>>, <<1, 33157765, 175777651, -53>>, <<-1, 28670195, 224051364, -56>>,
        <<-1, 20810943, 124195231, -54>>, <<1, 27661276, 132324232, -56>>, <<1, 22286303, 89736549, -55>>>>,
      <<<<1, 30408742, 214585018, -56>>, <<1, 30279660, 19499648, -56>>, <<1, 33129294, 148073546, -53>>, <<-1, 29643061, 197838334, -56>>,
        <<-1, 20701208, 189937393, -54>>, <<1, 28525682, 244914544, -56>>, <<1, 21974443, 145601395, -55>>>>,
      <<<<1, 31457099, 45383626, -56>>, <<1, 31314276, 168107392, -56>>, <<1, 33099879, 148686997, -53>>, <<-1, 30610591, 9857092, -56>>,
        <<-1, 20588135, 72325727, -54>>, <<1, 29377646, 230158970, -56>>, <<1, 21654309, 138387146, -55>>>>,
      <<<<1, 32506026, 161504224, -56>>, <<1, 32348522, 62760256, -56>>, <<1, 33069505, 193702271, -53>>, <<-1, 31573266, 42444407, -56>>,
        <<-1, 20471694, 230764731, -54>>, <<1, 30217407, 50790224, -56>>, <<1, 21326154, 107456299, -55>>>>,
      <<<<1, 33554347, 177169374, -56>>, <<1, 33381206, 167659392, -56>>, <<1, 33038212, 140762237, -53>>, <<-1, 32529853, 22120198, -56>>,
        <<-1, 20352068, 109553308, -54>>, <<1, 31043713, 188246234, -56>>, <<1, 20990236, 54898172, -55>>>>,
      <<<<1, 17301414, 248294824, -55>>, <<1, 17206528, 171533312, -55>>, <<1, 33005983, 33356907, -53>>, <<-1, 33480904, 102625503, -56>>,
        <<-1, 20229221, 173566988, -54>>, <<1, 31856881, 144532346, -56>>, <<1, 20646817, 156727764, -55>>>>,
      <<<<1, 17825843, 54732563, -55>>, <<1, 17722127, 33804704, -55>>, <<1, 32972815, 235844707, -53>>, <<-1, 17213230, 22851994, -55>>,
        <<-1, 20103179, 148600350, -54>>, <<1, 32656778, 18832958, -56>>, <<1, 20296165, 111052253, -55>>>>,
      <<<<1, 18350029, 169625617, -55>>, <<1, 18236962, 166451712, -55>>, <<1, 32938743, 223708983, -53>>, <<-1, 17682800, 187930267, -55>>,
        <<-1, 19974099, 61624529, -54>>, <<1, 33442473, 199507727, -56>>, <<1, 19938550, 153434571, -55>>>>,
      <<<<1, 18874355, 214581645, -55>>, <<1, 18751395, 194481824, -55>>, <<1, 32903748, 97788329, -53>>, <<-1, 18149434, 212634280, -55>>,
        <<-1, 19841942, 48657827, -54>>, <<1, 17107138, 262583334, -55>>, <<1, 19574247, 134898791, -55>>>>,
      <<<<1, 19398525, 164071714, -55>>, <<1, 19265121, 194111040, -55>>, <<1, 32867855, 86907180, -53>>, <<-1, 18612798, 98444180, -55>>,
        <<-1, 19706838, 200149693, -54>>, <<1, 17485749, 235363354, -55>>, <<1, 19203533, 268322106, -55>>>>,
      <<<<1, 19922810, 33299114, -55>>, <<1, 19778392, 52788288, -55>>, <<1, 32831052, 119125755, -53>>, <<-1, 19073062, 22102147, -55>>,
        <<-1, 19568775, 259748565, -54>>, <<1, 17857143, 210269186, -55>>, <<1, 18826690, 205313745, -55>>>>,
      <<<<1, 20447321, 226025822, -55>>, <<1, 20291302, 180981472, -55>>, <<1, 32793337, 72150038, -53>>, <<-1, 19530253, 140216233, -55>>,
        <<-1, 19427778, 239776617, -54>>, <<1, 18221276, 52061657, -55>>, <<1, 18444001, 51101264, -55>>>>,
      <<<<1, 20971593, 256056090, -55>>, <<1, 20803382, 198595424, -55>>, <<1, 32754749, 228177546, -53>>, <<-1, 19983899, 64815341, -55>>,
        <<-1, 19284031, 138946148, -54>>, <<1, 18577711, 236152358, -55>>, <<1, 18055750, 246182976, -55>>>>,
      <<<<1, 21495886, 1938849, -55>>, <<1, 21314872, 116395200, -55>>, <<1, 32715278, 60228921, -53>>, <<-1, 20434160, 173177258, -55>>,
        <<-1, 19137523, 185933149, -54>>, <<1, 18926526, 53594598, -55>>, <<1, 17662227, 165933207, -55>>>>,
      <<<<1, 22019962, 177439453, -55>>, <<1, 21825528, 207161984, -55>>, <<1, 32674947, 81733856, -53>>, <<-1, 20880773, 188977500, -55>>,
        <<-1, 18988382, 193480098, -54>>, <<1, 19267466, 208324781, -55>>, <<1, 17263720, 149788362, -55>>>>,
      <<<<1, 22544483, 86247614, -55>>, <<1, 22335980, 60453856, -55>>, <<1, 32633712, 162398364, -53>>, <<-1, 21324235, 163480912, -55>>,
        <<-1, 18836480, 5502254, -54>>, <<1, 19600862, 259537897, -55>>, <<1, 16860520, 102048667, -55>>>>,
      <<<<1, 23068658, 186204033, -55>>, <<1, 22845444, 259252224, -55>>, <<1, 32591642, 235998761, -53>>, <<-1, 21763817, 10007506, -55>>,
        <<-1, 18682104, 252019265, -54>>, <<1, 19926122, 21997719, -55>>, <<1, 32905837, 90572736, -56>>>>,
      <<<<1, 23593092, 73459425, -55>>, <<1, 23354496, 77946400, -55>>, <<1, 32548696, 262368965, -53>>, <<-1, 22199965, 103786627, -55>>,
        <<-1, 18525142, 161955912, -54>>, <<1, 20243537, 108653314, -55>>, <<1, 32082415, 130108477, -56>>>>,
      <<<<1, 24117177, 244951110, -55>>, <<1, 23862532, 188087616, -55>>, <<1, 32504931, 251195285, -53>>, <<-1, 22632119, 111345251, -55>>,
        <<-1, 18365837, 231181791, -54>>, <<1, 20552666, 207646054, -55>>, <<1, 31251360, 118302826, -56>>>>,
      <<<<1, 24641664, 268227728, -55>>, <<1, 24370267, 89610464, -55>>, <<1, 32460292, 92151909, -53>>, <<-1, 23060839, 225442236, -55>>,
        <<-1, 18204025, 263050116, -54>>, <<1, 20853879, 65350962, -55>>, <<1, 30413257, 174435915, -56>>>>,
      <<<<1, 25165921, 76446145, -55>>, <<1, 24877074, 192908448, -55>>, <<1, 32414839, 1476589, -53>>, <<-1, 23485552, 236909421, -55>>,
        <<-1, 18039964, 213695915, -54>>, <<1, 21146741, 208778216, -55>>, <<1, 29568691, 243374094, -56>>>>,
      <<<<1, 25690208, 256408599, -55>>, <<1, 25383195, 202257984, -55>>, <<1, 32368557, 47534889, -53>>, <<-1, 23906419, 132531386, -55>>,
        <<-1, 17873638, 5862743, -54>>, <<1, 21431345, 65171390, -55>>, <<1, 28718246, 263293940, -56>>>>,
      <<<<1, 26214477, 55676278, -55>>, <<1, 25888568, 141869312, -55>>, <<1, 32321458, 248932155, -53>>, <<-1, 24323346, 175028931, -55>>,
        <<-1, 17705126, 153363247, -54>>, <<1, 21707607, 62701631, -55>>, <<1, 27862504, 208818303, -56>>>>,
      <<<<1, 26738685, 49417564, -55>>, <<1, 26393141, 28268832, -55>>, <<1, 32273555, 221398175, -53>>, <<-1, 24736252, 50865503, -55>>,
        <<-1, 17534509, 91411087, -54>>, <<1, 21975459, 57952510, -55>>, <<1, 27002044, 265012768, -56>>>>,
      <<<<1, 27263067, 260108384, -55>>, <<1, 26897126, 245270880, -55>>, <<1, 32224833, 250740967, -53>>, <<-1, 25145270, 244770241, -55>>,
        <<-1, 17361774, 208328263, -54>>, <<1, 22234975, 87886758, -55>>, <<1, 26137444, 70500878, -56>>>>,
      <<<<1, 27787133, 250390756, -55>>, <<1, 27400041, 75856096, -55>>, <<1, 32175347, 42989963, -53>>, <<-1, 25549973, 135568156, -55>>,
        <<-1, 17187151, 154378667, -54>>, <<1, 22485878, 12868239, -55>>, <<1, 25269275, 240698120, -56>>>>,
      <<<<1, 28311543, 233821523, -55>>, <<1, 27902505, 247098240, -55>>, <<1, 32125041, 11034128, -53>>, <<-1, 25950823, 262007393, -55>>,
        <<-1, 17010485, 172445327, -54>>, <<1, 22728451, 12723666, -55>>, <<1, 24398109, 6455599, -56>>>>,
      <<<<1, 28835814, 110703269, -55>>, <<1, 28404044, 267837408, -55>>, <<1, 32073969, 153211783, -53>>, <<-1, 26347406, 7723354, -55>>,
        <<-1, 16832005, 40342468, -54>>, <<1, 22962439, 58993234, -55>>, <<1, 23524508, 87235930, -56>>>>,
      <<<<1, 29360027, 71784947, -55>>, <<1, 28904725, 7578272, -55>>, <<1, 32022133, 106529555, -53>>, <<-1, 26739740, 263790653, -55>>,
        <<-1, 33303499, 249109303, -55>>, <<1, 23187862, 223331068, -55>>, <<1, 22649033, 68244350, -56>>>>,
      <<<<1, 29884533, 90764268, -55>>, <<1, 29404868, 171039712, -55>>, <<1, 31969505, 150106280, -53>>, <<-1, 27128047, 86159666, -55>>,
        <<-1, 32939330, 24756802, -55>>, <<1, 23404851, 107245517, -55>>, <<1, 21772237, 208244885, -56>>>>,
      <<<<1, 30408582, 1735071, -55>>, <<1, 29903748, 165373600, -55>>, <<1, 31916170, 15628302, -53>>, <<-1, 27511731, 171981108, -55>>,
        <<-1, 32572157, 76594738, -55>>, <<1, 23613088, 58540343, -55>>, <<1, 20894669, 166495578, -56>>>>,
      <<<<1, 30932887, 197072023, -55>>, <<1, 30402033, 234917088, -55>>, <<1, 31862063, 4593095, -53>>, <<-1, 27891281, 95084076, -55>>,
        <<-1, 32201616, 189052546, -55>>, <<1, 23812857, 49057111, -55>>, <<1, 20016870, 14168494, -56>>>>,
      <<<<1, 31457412, 2136864, -55>>, <<1, 30899675, 21342048, -55>>, <<1, 31807195, 236846577, -53>>, <<-1, 28266626, 25603855, -55>>,
        <<-1, 31827865, 69224605, -55>>, <<1, 24004132, 89123628, -55>>, <<1, 19139373, 43276940, -56>>>>,
      <<<<1, 31981580, 11441212, -55>>, <<1, 31396115, 211878144, -55>>, <<1, 31751637, 166146187, -53>>, <<-1, 28637321, 70907551, -55>>,
        <<-1, 31451447, 160294400, -55>>, <<1, 24186712, 254178185, -55>>, <<1, 18262705, 176830270, -56>>>>,
      <<<<1, 32505910, 223553539, -55>>, <<1, 31891836, 189684864, -55>>, <<1, 31695342, 64026306, -53>>, <<-1, 29003702, 238155624, -55>>,
        <<-1, 31072126, 111379171, -55>>, <<1, 24360795, 57328832, -55>>, <<1, 17387386, 54987530, -56>>>>,
      <<<<1, 33030052, 146321347, -55>>, <<1, 32386494, 23414112, -55>>, <<1, 31638356, 66235191, -53>>, <<-1, 29365493, 159516630, -55>>,
        <<-1, 30690289, 251560090, -55>>, <<1, 24526278, 160060958, -55>>, <<1, 33027850, 131037347, -57>>>>,
      <<<<1, 16777262, 187912110, -54>>, <<1, 32880567, 128656864, -55>>, <<1, 31580631, 145080615, -53>>, <<-1, 29723020, 89511281, -55>>,
        <<-1, 30305691, 117886854, -55>>, <<1, 24683344, 136574531, -55>>, <<1, 31285648, 194058472, -57>>>>,
      <<<<1, 17039306, 145721086, -54>>, <<1, 33373371, 87690240, -55>>, <<1, 31522255, 231451787, -53>>, <<-1, 30075766, 204621567, -55>>,
        <<-1, 29918989, 115448531, -55>>, <<1, 24831805, 46435985, -55>>, <<1, 29549152, 84999600, -57>>>>,
      <<<<1, 17301453, 59344055, -54>>, <<1, 16932725, 120771744, -54>>, <<1, 31463172, 163674803, -53>>, <<-1, 30424105, 184438824, -55>>,
        <<-1, 29529881, 170661939, -55>>, <<1, 24971862, 151264719, -55>>, <<1, 27819327, 77055571, -57>>>>,
      <<<<1, 17563633, 248688087, -54>>, <<1, 17178332, 226456608, -54>>, <<1, 31403405, 177649488, -53>>, <<-1, 30767916, 125274142, -55>>,
        <<-1, 29138600, 110277891, -55>>, <<1, 25103508, 44825063, -55>>, <<1, 26097120, 78916532, -57>>>>,
      <<<<1, 17825850, 139549914, -54>>, <<1, 17423504, 41162400, -54>>, <<1, 31342963, 76126544, -53>>, <<-1, 31107175, 159641060, -55>>,
        <<-1, 28745273, 160892598, -55>>, <<1, 25226779, 15804123, -55>>, <<1, 24383457, 133077931, -57>>>>,
      <<<<1, 18087967, 61840581, -54>>, <<1, 17668107, 115452832, -54>>, <<1, 31281886, 4269697, -53>>, <<-1, 31441686, 140751499, -55>>,
        <<-1, 28350236, 89886042, -55>>, <<1, 25341658, 108206764, -55>>, <<1, 22679244, 121362672, -57>>>>,
      <<<<1, 18350139, 101852425, -54>>, <<1, 17912282, 169764768, -54>>, <<1, 31220146, 235675442, -53>>, <<-1, 31771627, 163212158, -55>>,
        <<-1, 27953385, 12731164, -55>>, <<1, 25448264, 197909086, -55>>, <<1, 20985365, 15042047, -57>>>>,
      <<<<1, 18612218, 111321427, -54>>, <<1, 18155886, 128028096, -54>>, <<1, 31157790, 18976575, -53>>, <<-1, 32096793, 102880930, -55>>,
        <<-1, 27555074, 40008452, -55>>, <<1, 25546591, 260804750, -55>>, <<1, 19302681, 137609430, -57>>>>,
      <<<<1, 18874322, 221534895, -54>>, <<1, 18399024, 87816032, -54>>, <<1, 31094796, 205179689, -53>>, <<-1, 32417314, 178738862, -55>>,
        <<-1, 27155252, 133011347, -55>>, <<1, 25636744, 128668714, -55>>, <<1, 17632033, 93232794, -57>>>>,
      <<<<1, 19136463, 21819482, -54>>, <<1, 18641700, 223773792, -54>>, <<1, 31031173, 99822909, -53>>, <<-1, 32733186, 30693320, -55>>,
        <<-1, 26754031, 6666309, -55>>, <<1, 25718783, 195497176, -55>>, <<1, 31948474, 246963404, -58>>>>,
      <<<<1, 19398624, 195981257, -54>>, <<1, 18883897, 170377568, -54>>, <<1, 30966932, 102307694, -53>>, <<-1, 33044373, 202033644, -55>>,
        <<-1, 26351557, 241455509, -55>>, <<1, 25792767, 69616917, -55>>, <<1, 28660174, 112799333, -58>>>>,
      <<<<1, 19660826, 43493342, -54>>, <<1, 19125626, 213460928, -54>>, <<1, 30902078, 76910518, -53>>, <<-1, 33350884, 56042057, -55>>,
        <<-1, 25947929, 255156467, -55>>, <<1, 25858765, 259984987, -55>>, <<1, 25400705, 24066841, -58>>>>,
      <<<<1, 19922919, 40329578, -54>>, <<1, 19366747, 49510592, -54>>, <<1, 30836657, 59794822, -53>>, <<-1, 16826266, 265951759, -54>>,
        <<-1, 25543500, 26717565, -55>>, <<1, 25916817, 244969639, -55>>, <<1, 22171558, 86360933, -58>>>>,
      <<<<1, 20185060, 135609120, -54>>, <<1, 19607398, 170908864, -54>>, <<1, 30770639, 136838116, -53>>, <<-1, 16974747, 73034008, -54>>,
        <<-1, 25138149, 234635122, -55>>, <<1, 25967036, 86048802, -55>>, <<1, 18974177, 110081582, -58>>>>,
      <<<<1, 20447288, 19027866, -54>>, <<1, 19847610, 258916832, -54>>, <<1, 30704024, 120529107, -53>>, <<-1, 17120897, 256643121, -54>>,
        <<-1, 24731942, 35650937, -55>>, <<1, 26009501, 194878972, -55>>, <<1, 31619912, 13010223, -59>>>>,
      <<<<1, 20709427, 250843457, -54>>, <<1, 20087220, 107529984, -54>>, <<1, 30636865, 140053786, -53>>, <<-1, 17264618, 66004320, -54>>,
        <<-1, 24325267, 3352698, -55>>, <<1, 26044268, 170808408, -55>>, <<1, 25360477, 134825137, -59>>>>,
      <<<<1, 20971542, 66719281, -54>>, <<1, 20326279, 190205952, -54>>, <<1, 30569156, 128455642, -53>>, <<-1, 17405940, 154901896, -54>>,
        <<-1, 23918147, 229244476, -55>>, <<1, 26071436, 30225201, -55>>, <<1, 19172639, 118451719, -59>>>>,
      <<<<1, 21233719, 67571858, -54>>, <<1, 20564864, 252329984, -54>>, <<1, 30500883, 195328619, -53>>, <<-1, 17544909, 142117191, -54>>,
        <<-1, 23510565, 144021158, -55>>, <<1, 26091100, 162786334, -55>>, <<1, 26117773, 34581382, -60>>>>,
      <<<<1, 21495820, 142668288, -54>>, <<1, 20802845, 251638880, -54>>, <<1, 30432092, 182212460, -53>>, <<-1, 17681450, 30626498, -54>>,
        <<-1, 23102851, 226305396, -55>>, <<1, 26103344, 52464576, -55>>, <<1, 28086422, 58320690, -61>>>>,
      <<<<1, 21757956, 228053707, -54>>, <<1, 21040319, 61006368, -54>>, <<1, 30362763, 192861457, -53>>, <<-1, 17815619, 125200969, -54>>,
        <<-1, 22694949, 179028284, -55>>, <<1, 26108268, 135113803, -55>>, <<1, 17009323, 4625858, -63>>>>,
      <<<<1, 22020057, 60248991, -54>>, <<1, 21277216, 111664832, -54>>, <<1, 30292924, 256351710, -53>>, <<-1, 17947380, 219294084, -54>>,
        <<-1, 22287083, 16928240, -55>>, <<1, 26105969, 187454989, -55>>, <<-1, 19257993, 85723277, -61>>>>,
      <<<<1, 22282239, 50622815, -54>>, <<1, 21513639, 153041152, -54>>, <<1, 30222554, 73273304, -53>>, <<-1, 18076792, 224522785, -54>>,
        <<-1, 21879181, 65649561, -55>>, <<1, 26096544, 253236487, -55>>, <<-1, 21218109, 9163356, -60>>>>,
      <<<<1, 22544430, 143565702, -54>>, <<1, 21749519, 91608768, -54>>, <<1, 30151680, 33773065, -53>>, <<-1, 18203819, 134743838, -54>>,
        <<-1, 21471467, 43278287, -55>>, <<1, 26080095, 201679943, -55>>, <<-1, 32637211, 673229, -60>>>>,
      <<<<1, 22806487, 16045456, -54>>, <<1, 21984722, 139295456, -54>>, <<1, 30080351, 48142518, -53>>, <<-1, 18328394, 45363010, -54>>,
        <<-1, 21064273, 203971218, -55>>, <<1, 26056741, 18705498, -55>>, <<-1, 21941271, 117474821, -59>>>>,
      <<<<1, 23068635, 118320723, -54>>, <<1, 22219448, 238023936, -54>>, <<1, 30008515, 47334045, -53>>, <<-1, 18450627, 85526145, -54>>,
        <<-1, 20657355, 259293977, -55>>, <<1, 26026569, 148088339, -55>>, <<-1, 27475274, 170483615, -59>>>>,
      <<<<1, 23330757, 208902626, -54>>, <<1, 22453588, 251801216, -54>>, <<1, 29936213, 148707343, -53>>, <<-1, 18570465, 225451492, -54>>,
        <<-1, 20251002, 125856346, -55>>, <<1, 25989701, 113253625, -55>>, <<-1, 32918937, 69229025, -59>>>>,
      <<<<1, 23592921, 169527250, -54>>, <<1, 22687199, 83898848, -54>>, <<1, 29863436, 251620843, -53>>, <<-1, 18687943, 210510939, -54>>,
        <<-1, 19845212, 111842111, -55>>, <<1, 25946237, 231067423, -55>>, <<-1, 19135341, 93599855, -58>>>>,
      <<<<1, 23855062, 259756883, -54>>, <<1, 22920219, 81815232, -54>>, <<1, 29790212, 90921242, -53>>, <<-1, 18803036, 47632554, -54>>,
        <<-1, 19440187, 17860343, -55>>, <<1, 25896301, 232926554, -55>>, <<-1, 21764516, 144541092, -58>>>>,
      <<<<1, 24117183, 2786276, -54>>, <<1, 23152646, 170098112, -54>>, <<1, 29716548, 214439795, -53>>, <<-1, 18915748, 193997258, -54>>,
        <<-1, 19036024, 167115548, -55>>, <<1, 25840009, 185198865, -55>>, <<-1, 24346305, 51200410, -58>>>>,
      <<<<1, 24379361, 42737978, -54>>, <<1, 23384548, 38376576, -54>>, <<1, 29642433, 43781424, -53>>, <<-1, 19026120, 58225241, -54>>,
        <<-1, 18632701, 89908476, -55>>, <<1, 25777459, 112383491, -55>>, <<-1, 26880066, 239329094, -58>>>>,
      <<<<1, 24641470, 168615034, -54>>, <<1, 23615808, 95478304, -54>>, <<1, 29567910, 141636288, -53>>, <<-1, 19134103, 41109886, -54>>,
        <<-1, 18230508, 221884471, -55>>, <<1, 25708799, 177408687, -55>>, <<-1, 29365210, 72696850, -58>>>>,
      <<<<1, 24903743, 26139320, -54>>, <<1, 23846628, 19381984, -54>>, <<1, 29492924, 1443773, -53>>, <<-1, 19239797, 267267906, -54>>,
        <<-1, 17829187, 7823841, -55>>, <<1, 25634085, 234800470, -55>>, <<-1, 31801191, 156825971, -58>>>>,
      <<<<1, 25165780, 32726092, -54>>, <<1, 24076653, 174458784, -54>>, <<1, 29417596, 232555575, -53>>, <<-1, 19343051, 263510762, -54>>,
        <<-1, 17429438, 14357618, -55>>, <<1, 25553554, 177580571, -55>>, <<-1, 17093757, 141741986, -57>>>>,
      <<<<1, 25428018, 113755243, -54>>, <<1, 24306265, 112770560, -54>>, <<1, 29341812, 215932728, -53>>, <<-1, 19444045, 9700595, -54>>,
        <<-1, 17030686, 133915122, -55>>, <<1, 25467194, 213072873, -55>>, <<-1, 18261865, 186508807, -57>>>>,
      <<<<1, 25690172, 177254777, -54>>, <<1, 24535210, 17080864, -54>>, <<1, 29265663, 37151478, -53>>, <<-1, 19542673, 162090463, -54>>,
        <<-1, 33266912, 139894913, -56>>, <<1, 25375219, 66519680, -55>>, <<-1, 19404719, 1247436, -57>>>>,
      <<<<1, 25952318, 157888469, -54>>, <<1, 24763551, 11717376, -54>>, <<1, 29189135, 43410581, -53>>, <<-1, 19638975, 225362666, -54>>,
        <<-1, 32475438, 9346093, -56>>, <<1, 25277728, 51934179, -55>>, <<-1, 20522138, 202510653, -57>>>>,
      <<<<1, 26214371, 96361567, -54>>, <<1, 24991211, 231530432, -54>>, <<1, 29112262, 246140791, -53>>, <<-1, 19732930, 225768517, -54>>,
        <<-1, 31687374, 104803547, -56>>, <<1, 25174880, 242213550, -55>>, <<-1, 21613968, 241609537, -57>>>>,
      <<<<1, 26476586, 176780493, -54>>, <<1, 25218411, 145741952, -54>>, <<1, 29034980, 73977018, -53>>, <<-1, 19824638, 210036358, -54>>,
        <<-1, 30902120, 147216872, -56>>, <<1, 25066700, 49370208, -55>>, <<-1, 22680075, 68211693, -57>>>>,
      <<<<1, 26738734, 9371114, -54>>, <<1, 25444947, 75852064, -54>>, <<1, 28957363, 254346360, -53>>, <<-1, 19914027, 193064431, -54>>,
        <<-1, 30120531, 31884184, -56>>, <<1, 24953404, 47952155, -55>>, <<-1, 23720345, 138837624, -57>>>>,
      <<<<1, 27000871, 86592363, -54>>, <<1, 25670866, 161440256, -54>>, <<1, 28879405, 244764447, -53>>, <<-1, 20001128, 206390738, -54>>,
        <<-1, 29342590, 231624122, -56>>, <<1, 24835096, 151518921, -55>>, <<-1, 24734688, 121741141, -57>>>>,
      <<<<1, 27263023, 65310956, -54>>, <<1, 25896188, 35276032, -54>>, <<1, 28801107, 190773213, -53>>, <<-1, 20085960, 246313165, -54>>,
        <<-1, 28568381, 77480154, -56>>, <<1, 24711892, 227801066, -55>>, <<-1, 25723033, 237068394, -57>>>>,
      <<<<1, 27525108, 92561846, -54>>, <<1, 26120839, 122999488, -54>>, <<1, 28722502, 168668942, -53>>, <<-1, 20168509, 204118591, -54>>,
        <<-1, 27798292, 152555523, -56>>, <<1, 24583959, 209020623, -55>>, <<-1, 26685331, 225447384, -57>>>>,
      <<<<1, 27787304, 132197038, -54>>, <<1, 26344970, 98553856, -54>>, <<1, 28643546, 14167557, -53>>, <<-1, 20248842, 124441362, -54>>,
        <<-1, 27031949, 250361261, -56>>, <<1, 24451336, 168752190, -55>>, <<-1, 27621552, 141750216, -57>>>>,
      <<<<1, 28049428, 162032772, -54>>, <<1, 26568421, 205854432, -54>>, <<1, 28564301, 218363574, -53>>, <<-1, 20326914, 152838018, -54>>,
        <<-1, 26270032, 66510688, -56>>, <<1, 24314242, 84483730, -55>>, <<-1, 28531685, 125436459, -57>>>>,
      <<<<1, 28311538, 256688865, -54>>, <<1, 26791241, 69363008, -54>>, <<1, 28484761, 43458570, -53>>, <<-1, 20402757, 22281473, -54>>,
        <<-1, 25512506, 238936702, -56>>, <<1, 24172775, 246674225, -55>>, <<-1, 29415739, 112023310, -57>>>>,
      <<<<1, 28573708, 49508638, -54>>, <<1, 27013488, 30262464, -54>>, <<1, 28404910, 174290971, -53>>, <<-1, 20476403, 107329097, -54>>,
        <<-1, 24759299, 259062726, -56>>, <<1, 24027024, 102628398, -55>>, <<-1, 30273741, 137886147, -57>>>>,
      <<<<1, 28835850, 125297024, -54>>, <<1, 27235087, 57970464, -54>>, <<1, 28324784, 263198250, -53>>, <<-1, 20547842, 93818027, -54>>,
        <<-1, 24010789, 209083051, -56>>, <<1, 23877161, 202823288, -55>>, <<-1, 31105737, 44134079, -57>>>>,
      <<<<1, 29097936, 142480621, -54>>, <<1, 27456011, 252566272, -54>>, <<1, 28244401, 214855316, -53>>, <<-1, 20617080, 192144323, -54>>,
        <<-1, 23267184, 166711756, -56>>, <<1, 23723333, 138448186, -55>>, <<-1, 31911789, 48529427, -57>>>>,
      <<<<1, 29360143, 550787, -54>>, <<1, 27676408, 222593152, -54>>, <<1, 28163715, 93915994, -53>>, <<-1, 20684178, 119806854, -54>>,
        <<-1, 22528108, 34488321, -56>>, <<1, 23565561, 15124651, -55>>, <<-1, 32691977, 174262823, -57>>>>,
      <<<<1, 29622296, 104749304, -54>>, <<1, 27896129, 205134752, -54>>, <<1, 28082787, 99450322, -53>>, <<-1, 20749104, 201808720, -54>>,
        <<-1, 21794170, 69826876, -56>>, <<1, 23404073, 93338658, -55>>, <<-1, 33446399, 16299593, -57>>>>,
      <<<<1, 29884358, 207799231, -54>>, <<1, 28115141, 134895680, -54>>, <<1, 28001638, 47306760, -53>>, <<-1, 20811866, 213583596, -54>>,
        <<-1, 21065588, 35537628, -56>>, <<1, 23239022, 90214141, -55>>, <<-1, 17087583, 21718170, -56>>>>,
      <<<<1, 30146595, 78815753, -54>>, <<1, 28333663, 110050112, -54>>, <<1, 27920193, 238930246, -53>>, <<-1, 20872542, 47933262, -54>>,
        <<-1, 20341738, 75710462, -56>>, <<1, 23070364, 82852139, -55>>, <<-1, 17439203, 145818113, -56>>>>,
      <<<<1, 30408650, 180746745, -54>>, <<1, 28551397, 163863744, -54>>, <<1, 27838573, 37264420, -53>>, <<-1, 20931064, 56799947, -54>>,
        <<-1, 19623708, 113723046, -56>>, <<1, 22898452, 40708422, -55>>, <<-1, 17778132, 159501941, -56>>>>,
      <<<<1, 30670912, 226495588, -54>>, <<1, 28768664, 145712512, -54>>, <<1, 27756663, 77123282, -53>>, <<-1, 20987534, 260666816, -54>>,
        <<-1, 18910539, 245898795, -56>>, <<1, 22723154, 138410574, -55>>, <<-1, 18104449, 24138032, -56>>>>,
      <<<<1, 30932971, 15090944, -54>>, <<1, 28985122, 52748608, -54>>, <<1, 27674600, 207279744, -53>>, <<-1, 21041882, 4129837, -54>>,
        <<-1, 18203449, 92289180, -56>>, <<1, 22544868, 165251230, -55>>, <<-1, 18418238, 261510479, -56>>>>,
      <<<<1, 31195106, 234681579, -54>>, <<1, 29201001, 253568928, -54>>, <<1, 27592305, 180520650, -53>>, <<-1, 21094181, 151670241, -54>>,
        <<-1, 17501768, 198307749, -56>>, <<1, 22363527, 2426576, -55>>, <<-1, 18719594, 228857254, -56>>>>,
      <<<<1, 31457240, 171228098, -54>>, <<1, 29416236, 83337920, -54>>, <<1, 27509810, 251071411, -53>>, <<-1, 21144433, 116286588, -54>>,
        <<-1, 16805805, 191000763, -56>>, <<1, 22179304, 116428262, -55>>, <<-1, 19008615, 240148987, -56>>>>,
      <<<<1, 31719389, 40113600, -54>>, <<1, 29630837, 136849728, -54>>, <<1, 27427119, 59891147, -53>>, <<-1, 21192657, 149806858, -54>>,
        <<-1, 32231208, 145066415, -57>>, <<1, 21992308, 217669987, -55>>, <<-1, 19285407, 111248513, -56>>>>,
      <<<<1, 31981555, 133637746, -54>>, <<1, 29844806, 128597440, -54>>, <<1, 27344237, 114198195, -53>>, <<-1, 21238871, 67337873, -54>>,
        <<-1, 30862483, 187483205, -57>>, <<1, 21802656, 90501377, -55>>, <<-1, 19550080, 206163300, -56>>>>,
      <<<<1, 32243674, 18595855, -54>>, <<1, 30058088, 98711136, -54>>, <<1, 27261194, 39592854, -53>>, <<-1, 21283080, 174355023, -54>>,
        <<-1, 29505938, 260513410, -57>>, <<1, 21610512, 184286085, -55>>, <<-1, 19802752, 252703742, -56>>>>,
      <<<<1, 32505843, 51606893, -54>>, <<1, 30270761, 221301792, -54>>, <<1, 27177965, 267995423, -53>>, <<-1, 21325319, 241875630, -54>>,
        <<-1, 28161219, 243968397, -57>>, <<1, 21415922, 98107261, -55>>, <<-1, 20043546, 119358605, -56>>>>,
      <<<<1, 32768025, 21726574, -54>>, <<1, 30482794, 180468512, -54>>, <<1, 27094572, 163332885, -53>>, <<-1, 21365600, 5144209, -54>>,
        <<-1, 26828671, 193994633, -57>>, <<1, 21219027, 257679434, -55>>, <<-1, 20272588, 243974034, -56>>>>,
      <<<<1, 33030204, 219431976, -54>>, <<1, 30694173, 155096640, -54>>, <<1, 27011026, 91217899, -53>>, <<-1, 21403936, 167231813, -54>>,
        <<-1, 25508510, 223482228, -57>>, <<1, 21019954, 187135263, -55>>, <<-1, 20490012, 262522354, -56>>>>,
      <<<<1, 33292320, 5528537, -54>>, <<1, 30904847, 87480672, -54>>, <<1, 26927354, 183082661, -53>>, <<-1, 21440339, 148727540, -54>>,
        <<-1, 24201179, 88625012, -57>>, <<1, 20818863, 149930867, -55>>, <<-1, 20695955, 245807204, -56>>>>,
      <<<<1, 33554365, 175057576, -54>>, <<1, 31114811, 69270176, -54>>, <<1, 26843566, 223153323, -53>>, <<-1, 21474827, 265052274, -54>>,
        <<-1, 22906818, 96434762, -57>>, <<1, 20615871, 93953765, -55>>, <<-1, 20890559, 133209352, -56>>>>,
      <<<<1, 16908282, 105978056, -53>>, <<1, 31324242, 200739840, -54>>, <<1, 26759598, 215427813, -53>>, <<-1, 21507448, 257397957, -54>>,
        <<-1, 21624450, 239731211, -57>>, <<1, 20410914, 94459610, -55>>, <<-1, 21073969, 167084132, -56>>>>,
      <<<<1, 17039385, 202048854, -53>>, <<1, 31533023, 170631680, -54>>, <<1, 26675504, 146897493, -53>>, <<-1, 21538201, 91913981, -54>>,
        <<-1, 20354914, 105444027, -57>>, <<1, 20204213, 153446833, -55>>, <<-1, 21246336, 58011099, -56>>>>,
      <<<<1, 17170428, 38076891, -53>>, <<1, 31741050, 76922048, -54>>, <<1, 26591332, 253909881, -53>>, <<-1, 21567090, 23328184, -54>>,
        <<-1, 19098932, 192526495, -57>>, <<1, 19995979, 87078846, -55>>, <<-1, 21407812, 227742838, -56>>>>,
      <<<<1, 17301480, 105981436, -53>>, <<1, 31948434, 174042464, -54>>, <<1, 26507045, 202617066, -53>>, <<-1, 21594150, 255044554, -54>>,
        <<-1, 17855917, 244612203, -57>>, <<1, 19786205, 148234267, -55>>, <<-1, 21558556, 169331296, -56>>>>,
      <<<<1, 17432609, 8301605, -53>>, <<1, 32155280, 136589696, -54>>, <<1, 26422607, 54100555, -53>>, <<-1, 21619415, 21361781, -54>>,
        <<-1, 33250688, 5706788, -58>>, <<1, 19574888, 97636228, -55>>, <<-1, 21698727, 230406846, -56>>>>,
      <<<<1, 17563639, 58123732, -53>>, <<1, 32361311, 127923552, -54>>, <<1, 26338136, 249672850, -53>>, <<-1, 21642868, 155812947, -54>>,
        <<-1, 30817867, 241720431, -58>>, <<1, 19362412, 78770226, -55>>, <<-1, 21828489, 242142266, -56>>>>,
      <<<<1, 17694689, 118877742, -53>>, <<1, 32566713, 199342976, -54>>, <<1, 26253565, 160677216, -53>>, <<-1, 21664553, 193259783, -54>>,
        <<-1, 28411310, 8239710, -58>>, <<1, 19148687, 47687684, -55>>, <<-1, 21948008, 232432448, -56>>>>,
      <<<<1, 17825815, 255686508, -53>>, <<1, 32771574, 18473216, -54>>, <<1, 26168863, 189054203, -53>>, <<-1, 21684497, 115558014, -54>>,
        <<-1, 26030156, 255231010, -58>>, <<1, 18933719, 57084078, -55>>, <<-1, 22057453, 129197453, -56>>>>,
      <<<<1, 17956847, 227310437, -53>>, <<1, 32975624, 265426272, -54>>, <<1, 26084148, 124844810, -53>>, <<-1, 21702693, 202336131, -54>>,
        <<-1, 23677639, 268305252, -58>>, <<1, 18717886, 86622028, -55>>, <<-1, 22156994, 208922096, -56>>>>,
      <<<<1, 18087946, 262401649, -53>>, <<1, 33179118, 53628256, -54>>, <<1, 25999321, 267814111, -53>>, <<-1, 21719185, 128832333, -54>>,
        <<-1, 21350966, 120024688, -58>>, <<1, 18501018, 33289137, -55>>, <<-1, 22246805, 263857012, -56>>>>,
      <<<<1, 18218999, 53698951, -53>>, <<1, 33381875, 233082112, -54>>, <<1, 25914464, 213792070, -53>>, <<-1, 21733977, 187243467, -54>>,
        <<-1, 19052277, 263656140, -58>>, <<1, 18283397, 98732811, -55>>, <<-1, 22327062, 54477372, -56>>>>,
      <<<<1, 18350070, 205814658, -53>>, <<1, 16792000, 34139328, -53>>, <<1, 25829540, 150034726, -53>>, <<-1, 21747098, 92310211, -54>>,
        <<-1, 16780501, 250572586, -58>>, <<1, 18065006, 199576231, -55>>, <<-1, 22397940, 88214756, -56>>>>,
      <<<<1, 18481146, 244525921, -53>>, <<1, 16892734, 596928, -53>>, <<1, 25744565, 90590720, -53>>, <<-1, 21758565, 127883963, -54>>,
        <<-1, 29071976, 127386410, -59>>, <<1, 17845961, 97842766, -55>>, <<-1, 22459618, 196883038, -56>>>>,
      <<<<1, 18612219, 168996432, -53>>, <<1, 16993133, 61579296, -53>>, <<1, 25659550, 199020292, -53>>, <<-1, 21768398, 114582465, -54>>,
        <<-1, 24637899, 56758780, -59>>, <<1, 17626363, 151720423, -55>>, <<-1, 22512277, 48021018, -56>>>>,
      <<<<1, 18743316, 189111873, -53>>, <<1, 17093218, 230709248, -53>>, <<1, 25574485, 23223146, -53>>, <<-1, 21776618, 268293017, -54>>,
        <<-1, 20257974, 3168714, -59>>, <<1, 17406253, 241553625, -55>>, <<-1, 22556096, 142324583, -56>>>>,
      <<<<1, 18874371, 36728627, -53>>, <<1, 17192939, 184249568, -53>>, <<1, 25489418, 31649475, -53>>, <<-1, 21783243, 127846598, -54>>,
        <<-1, 31869069, 157149393, -60>>, <<1, 17185830, 102625857, -55>>, <<-1, 22591258, 178666413, -56>>>>,
      <<<<1, 19005453, 51005548, -53>>, <<1, 17292349, 35016832, -53>>, <<1, 25404310, 112453055, -53>>, <<-1, 21788295, 232803822, -54>>,
        <<-1, 23330680, 984367, -60>>, <<1, 16965058, 150167261, -55>>, <<-1, 22617946, 55693201, -56>>>>,
      <<<<1, 19136482, 22938620, -53>>, <<1, 17391385, 255330816, -53>>, <<1, 25319220, 146693951, -53>>, <<-1, 21791793, 192495479, -54>>,
        <<-1, 29812278, 39424952, -61>>, <<1, 33488312, 207506235, -56>>, <<-1, 22636342, 117349543, -56>>>>,
      <<<<1, 19267590, 137614941, -53>>, <<1, 17490150, 76982464, -53>>, <<1, 25234068, 95701667, -53>>, <<-1, 21793760, 89866362, -54>>,
        <<-1, 26348154, 243527844, -62>>, <<1, 33045960, 101345886, -56>>, <<-1, 22646631, 14257895, -56>>>>,
      <<<<1, 19398670, 137186640, -53>>, <<1, 17588560, 157242112, -53>>, <<1, 25148929, 244529079, -53>>, <<-1, 21794213, 121401194, -54>>,
        <<1, 25914492, 84891229, -64>>, <<1, 32603580, 163886794, -56>>, <<-1, 22648996, 97966816, -56>>>>,
      <<<<1, 19529714, 3893771, -53>>, <<1, 17686611, 8726304, -53>>, <<1, 25063816, 86004621, -53>>, <<-1, 21793174, 109865315, -54>>,
        <<1, 19427019, 248154800, -61>>, <<1, 32161353, 191546813, -56>>, <<-1, 22643621, 123377284, -56>>>>,
      <<<<1, 19660830, 152739219, -53>>, <<1, 17784383, 125925920, -53>>, <<1, 24978662, 61103511, -53>>, <<-1, 21790661, 260293741, -54>>,
        <<1, 17701269, 228360202, -60>>, <<1, 31719059, 119646432, -56>>, <<-1, 22630691, 125675584, -56>>>>,
      <<<<1, 19791868, 117131592, -53>>, <<1, 17881764, 216227904, -53>>, <<1, 24893571, 238616863, -53>>, <<-1, 21786699, 99279135, -54>>,
        <<1, 25573761, 153903659, -60>>, <<1, 31277355, 103523159, -56>>, <<-1, 22610389, 252576270, -56>>>>,
      <<<<1, 19922931, 164318957, -53>>, <<1, 17978832, 158379360, -53>>, <<1, 24808483, 106658459, -53>>, <<-1, 21781304, 153482546, -54>>,
        <<1, 33337399, 140390512, -60>>, <<1, 30836032, 250475443, -56>>, <<-1, 22582900, 127673642, -56>>>>,
      <<<<1, 20053984, 3027403, -53>>, <<1, 18075560, 33372032, -53>>, <<1, 24723425, 197039719, -53>>, <<-1, 21774499, 4650183, -54>>,
        <<1, 20495080, 257846257, -59>>, <<1, 30395352, 58154136, -56>>, <<-1, 22548406, 48793515, -56>>>>,
      <<<<1, 20185102, 231194621, -53>>, <<1, 18172004, 80761344, -53>>, <<1, 24638354, 71966117, -53>>, <<-1, 21766297, 263677121, -54>>,
        <<1, 24268328, 85658597, -59>>, <<1, 29955189, 8156896, -56>>, <<-1, 22507089, 164098219, -56>>>>,
      <<<<1, 20316188, 235153456, -53>>, <<1, 18268092, 23423712, -53>>, <<1, 24553338, 221981559, -53>>, <<-1, 21756727, 78299798, -54>>,
        <<1, 27985664, 95562178, -59>>, <<1, 29516008, 131900747, -56>>, <<-1, 22459132, 151910243, -56>>>>,
      <<<<1, 20447208, 163118164, -53>>, <<1, 18363799, 131119744, -53>>, <<1, 24468406, 101493309, -53>>, <<-1, 21745811, 9156981, -54>>,
        <<1, 31646319, 235541056, -59>>, <<1, 29078049, 142151462, -56>>, <<-1, 22404716, 9761754, -56>>>>,
      <<<<1, 20578329, 189638722, -53>>, <<1, 18459249, 840000, -53>>, <<1, 24383453, 134346889, -53>>, <<-1, 21733554, 204654166, -54>>,
        <<1, 17627544, 248136866, -58>>, <<1, 28640876, 159790147, -56>>, <<-1, 22344020, 6714037, -56>>>>,
      <<<<1, 20709388, 241918952, -53>>, <<1, 18554321, 218827488, -53>>, <<1, 24298591, 42365158, -53>>, <<-1, 21719993, 37891630, -54>>,
        <<1, 19403802, 13836614, -58>>, <<1, 28205155, 121971489, -56>>, <<-1, 22277223, 131669846, -56>>>>,
      <<<<1, 20840433, 21636615, -53>>, <<1, 18649052, 117403424, -53>>, <<1, 24213794, 6834087, -53>>, <<-1, 21705142, 110875398, -54>>,
        <<1, 21152672, 83874442, -58>>, <<1, 27770846, 133957669, -56>>, <<-1, 22204504, 49574330, -56>>>>,
      <<<<1, 20971516, 31103869, -53>>, <<1, 18743479, 254707776, -53>>, <<1, 24129032, 70717747, -53>>, <<-1, 21689016, 1244132, -54>>,
        <<1, 22874955, 264535883, -58>>, <<1, 27337885, 134919877, -56>>, <<-1, 22126038, 161747085, -56>>>>,
      <<<<1, 21102574, 18717747, -53>>, <<1, 18837558, 130280480, -53>>, <<1, 24044352, 40531616, -53>>, <<-1, 21671641, 105990930, -54>>,
        <<1, 24569904, 129640709, -58>>, <<1, 26906594, 102371873, -56>>, <<-1, 22042001, 223685536, -56>>>>,
      <<<<1, 21233663, 169297526, -53>>, <<1, 18931328, 263190624, -53>>, <<1, 23959721, 245813602, -53>>, <<-1, 21653030, 194149179, -54>>,
        <<1, 26238351, 139123632, -58>>, <<1, 26476893, 222842293, -56>>, <<-1, 21952567, 138342212, -56>>>>,
      <<<<1, 21364720, 222658468, -53>>, <<1, 19024745, 258429696, -53>>, <<1, 23875187, 168375121, -53>>, <<-1, 21633212, 200458232, -54>>,
        <<1, 27879592, 79399958, -58>>, <<1, 26049097, 66828661, -56>>, <<-1, 21857907, 188212475, -56>>>>,
      <<<<1, 21495784, 261164631, -53>>, <<1, 19117837, 227719232, -53>>, <<1, 23790728, 162546521, -53>>, <<-1, 21612201, 122357759, -54>>,
        <<1, 29494242, 99746385, -58>>, <<1, 25623176, 48850749, -56>>, <<-1, 21758192, 219346256, -56>>>>,
      <<<<1, 21626903, 52690027, -53>>, <<1, 19210638, 55456800, -53>>, <<1, 23706319, 41418279, -53>>, <<-1, 21590007, 260401850, -54>>,
        <<1, 31082985, 153621772, -58>>, <<1, 25199075, 246835750, -56>>, <<-1, 21653591, 145426117, -56>>>>,
      <<<<1, 21757963, 29295872, -53>>, <<1, 19303067, 227224704, -53>>, <<1, 23622036, 44809538, -53>>, <<-1, 21566670, 208987722, -54>>,
        <<1, 32644589, 12840684, -58>>, <<1, 24777253, 187738629, -56>>, <<-1, 21544270, 206827331, -56>>>>,
      <<<<1, 21889041, 218570875, -53>>, <<1, 19395181, 174389152, -53>>, <<1, 23537834, 131055282, -53>>, <<-1, 21542195, 265007687, -54>>,
        <<1, 17090058, 120932929, -57>>, <<1, 24357550, 267842170, -56>>, <<-1, 21430395, 135949234, -56>>>>,
      <<<<1, 22020069, 255257414, -53>>, <<1, 19486931, 98423168, -53>>, <<1, 23453763, 8088307, -53>>, <<-1, 21516616, 42710758, -54>>,
        <<1, 17844452, 144260825, -57>>, <<1, 23940276, 109935705, -56>>, <<-1, 21312128, 222841225, -56>>>>,
      <<<<1, 22151186, 184416089, -53>>, <<1, 19578414, 186397312, -53>>, <<1, 23369736, 231070381, -53>>, <<-1, 21489922, 202498999, -54>>,
        <<1, 18586344, 149009219, -57>>, <<1, 23525071, 256180671, -56>>, <<-1, 21189631, 215398622, -56>>>>,
      <<<<1, 22282269, 266019875, -53>>, <<1, 19669546, 184812224, -53>>, <<1, 23285838, 132536315, -53>>, <<-1, 21462158, 249905065, -54>>,
        <<1, 19315110, 158128197, -57>>, <<1, 23112406, 171615983, -56>>, <<-1, 21063063, 117760500, -56>>>>,
      <<<<1, 22413287, 47359823, -53>>, <<1, 19760305, 113144384, -53>>, <<1, 23202092, 240430814, -53>>, <<-1, 21433351, 192299350, -54>>,
        <<1, 20030660, 228245223, -57>>, <<1, 22702458, 144287293, -56>>, <<-1, 20932580, 167411633, -56>>>>,
      <<<<1, 22544398, 242314291, -53>>, <<1, 19850802, 139411424, -53>>, <<1, 23118401, 136075040, -53>>, <<-1, 21403484, 58962113, -54>>,
        <<1, 20733948, 67770970, -57>>, <<1, 22294800, 192625522, -56>>, <<-1, 20798338, 24118273, -56>>>>,
      <<<<1, 22675449, 136695082, -53>>, <<1, 19940930, 233819968, -53>>, <<1, 23034867, 202679063, -53>>, <<-1, 21372610, 41569502, -54>>,
        <<1, 21424214, 229169207, -57>>, <<1, 21889990, 23262408, -56>>, <<-1, 20660488, 92232054, -56>>>>,
      <<<<1, 22806495, 237650637, -53>>, <<1, 20030730, 85003712, -53>>, <<1, 22951459, 63902312, -53>>, <<-1, 21340735, 109804988, -54>>,
        <<1, 22101853, 239137001, -57>>, <<1, 21487917, 235245598, -56>>, <<-1, 20519181, 173845429, -56>>>>,
      <<<<1, 22937605, 120784793, -53>>, <<1, 20120247, 86324352, -53>>, <<1, 22868137, 1942618, -53>>, <<-1, 21307861, 86463695, -54>>,
        <<1, 22767291, 200278203, -57>>, <<1, 21088445, 45807538, -56>>, <<-1, 20374565, 257106970, -56>>>>,
      <<<<1, 23068692, 224417242, -53>>, <<1, 20209423, 254728800, -53>>, <<1, 22784959, 48912640, -53>>, <<-1, 21274027, 33589076, -54>>,
        <<1, 23420177, 150302651, -57>>, <<1, 20691896, 161530290, -56>>, <<-1, 20226786, 244146428, -56>>>>,
      <<<<1, 23199762, 204999115, -53>>, <<1, 20298264, 19746880, -53>>, <<1, 22701926, 119425513, -53>>, <<-1, 21239250, 51274262, -54>>,
        <<1, 24060630, 184928247, -57>>, <<1, 20298316, 266778411, -56>>, <<-1, 20075987, 205257275, -56>>>>,
      <<<<1, 23330824, 129269452, -53>>, <<1, 20386774, 158422400, -53>>, <<1, 22619036, 150670953, -53>>, <<-1, 21203546, 96280430, -54>>,
        <<1, 24688791, 261821391, -57>>, <<1, 19907735, 83197071, -56>>, <<-1, 19922309, 107784906, -56>>>>,
      <<<<1, 23461898, 122042751, -53>>, <<1, 20474969, 227969344, -53>>, <<1, 22536280, 50805848, -53>>, <<-1, 21166927, 238878851, -54>>,
        <<1, 25304852, 194911979, -57>>, <<1, 19520145, 156429954, -56>>, <<-1, 19765890, 72902312, -56>>>>,
      <<<<1, 23592974, 81987915, -53>>, <<1, 20562843, 100546816, -53>>, <<1, 22453667, 115151646, -53>>, <<-1, 21129415, 74944480, -54>>,
        <<1, 25908857, 179319055, -57>>, <<1, 19135631, 48509445, -56>>, <<-1, 19606866, 105395571, -56>>>>,
      <<<<1, 23724062, 48461703, -53>>, <<1, 20650402, 131409440, -53>>, <<1, 22371195, 98067917, -53>>, <<-1, 21091023, 23071955, -54>>,
        <<1, 26500948, 192538713, -57>>, <<1, 18754212, 111194157, -56>>, <<-1, 19445371, 84452187, -56>>>>,
      <<<<1, 23855072, 234142715, -53>>, <<1, 20737588, 116569824, -53>>, <<1, 22288923, 106475454, -53>>, <<-1, 21051795, 143499575, -54>>,
        <<1, 27080830, 95666874, -57>>, <<1, 18376193, 120821753, -56>>, <<-1, 19281536, 31148357, -56>>>>,
      <<<<1, 23986174, 171994346, -53>>, <<1, 20824513, 196334592, -53>>, <<1, 22206749, 54525582, -53>>, <<-1, 21011699, 113049577, -54>>,
        <<1, 27649345, 121898415, -57>>, <<1, 18001133, 201594886, -56>>, <<-1, 19115489, 101541207, -56>>>>,
      <<<<1, 24117262, 218229349, -53>>, <<1, 20911109, 82121728, -53>>, <<1, 22124741, 210473241, -53>>, <<-1, 20970783, 48910327, -54>>,
        <<1, 28206131, 9208269, -57>>, <<1, 17629377, 157330167, -56>>, <<-1, 18947357, 49614117, -56>>>>,
      <<<<1, 24248352, 13964779, -53>>, <<1, 20997385, 138130400, -53>>, <<1, 22042895, 35085425, -53>>, <<-1, 20929059, 102478172, -54>>,
        <<1, 28751353, 190016252, -57>>, <<1, 17260922, 120676941, -56>>, <<-1, 18777263, 27836500, -56>>>>,
      <<<<1, 24379409, 52682349, -53>>, <<1, 21083321, 75753248, -53>>, <<1, 21961233, 2603521, -53>>, <<-1, 20886555, 194481295, -54>>,
        <<1, 29284983, 124084842, -57>>, <<1, 16895897, 133532810, -56>>, <<-1, 18605328, 50807624, -56>>>>,
      <<<<1, 24510450, 97170634, -53>>, <<1, 21168928, 120256, -53>>, <<1, 21879748, 91487084, -53>>, <<-1, 20843284, 32644394, -54>>,
        <<1, 29807197, 29204495, -57>>, <<1, 33068581, 154529384, -57>>, <<-1, 18431670, 260966025, -56>>>>,
      <<<<1, 24641513, 9576310, -53>>, <<1, 21254230, 214347520, -53>>, <<1, 21798420, 218086830, -53>>, <<-1, 20799248, 186941124, -54>>,
        <<1, 30318249, 71255318, -57>>, <<1, 32352063, 38439665, -57>>, <<-1, 18256407, 124431426, -56>>>>,
      <<<<1, 24772580, 129169467, -53>>, <<1, 21339219, 96575264, -53>>, <<1, 21717263, 210706621, -53>>, <<-1, 20754471, 64956941, -54>>,
        <<1, 30818178, 63297246, -57>>, <<1, 31642393, 206640811, -57>>, <<-1, 18079651, 40774002, -56>>>>,
      <<<<1, 24903666, 253655465, -53>>, <<1, 21423903, 139326912, -53>>, <<1, 21636271, 92713405, -53>>, <<-1, 20708962, 251141723, -54>>,
        <<1, 31307143, 59283184, -57>>, <<1, 30939554, 85319288, -57>>, <<-1, 17901513, 2555344, -56>>>>,
      <<<<1, 25034777, 121408773, -53>>, <<1, 21508287, 16487808, -53>>, <<1, 21555443, 73838734, -53>>, <<-1, 20662737, 206807066, -54>>,
        <<1, 31785266, 84950765, -57>>, <<1, 30243573, 43054255, -57>>, <<-1, 17722101, 133103675, -56>>>>,
      <<<<1, 25165814, 166707346, -53>>, <<1, 21592308, 52180992, -53>>, <<1, 21474842, 65078858, -53>>, <<-1, 20615846, 107761860, -54>>,
        <<1, 32252308, 10003646, -57>>, <<1, 29555010, 250501088, -57>>, <<-1, 17541522, 151869232, -56>>>>,
      <<<<1, 25296924, 86725170, -53>>, <<1, 21676061, 45626176, -53>>, <<1, 21394381, 52133109, -53>>, <<-1, 20568252, 108856816, -54>>,
        <<1, 32708898, 176272853, -57>>, <<1, 28873144, 178392720, -57>>, <<-1, 17359879, 182251478, -56>>>>,
      <<<<1, 25427979, 223170111, -53>>, <<1, 21759465, 186498144, -53>>, <<1, 21314140, 148253175, -53>>, <<-1, 20520017, 65662791, -54>>,
        <<1, 33154705, 121126251, -57>>, <<1, 28198674, 126755257, -57>>, <<-1, 17177273, 217402640, -56>>>>,
      <<<<1, 25559064, 210148541, -53>>, <<1, 21842575, 220366240, -53>>, <<1, 21234071, 163062897, -53>>, <<-1, 20471125, 205400361, -54>>,
        <<1, 16795063, 187469810, -56>>, <<1, 27531203, 165136975, -57>>, <<-1, 16993803, 124237780, -56>>>>,
      <<<<1, 25690091, 98252560, -53>>, <<1, 21925336, 194231456, -53>>, <<1, 21154230, 113698495, -53>>, <<-1, 20421626, 53404321, -54>>,
        <<1, 17007494, 25689615, -56>>, <<1, 26871208, 188353331, -57>>, <<-1, 16809564, 183370665, -56>>>>,
      <<<<1, 25821192, 104626147, -53>>, <<1, 22007832, 265100928, -53>>, <<1, 21074538, 145230143, -53>>, <<-1, 20371483, 99497037, -54>>,
        <<1, 17214914, 138539666, -56>>, <<1, 26218050, 75781643, -57>>, <<-1, 33249302, 41496330, -57>>>>,
      <<<<1, 25952240, 249135791, -53>>, <<1, 22089985, 115509952, -53>>, <<1, 20995075, 143725294, -53>>, <<-1, 20320760, 164859335, -54>>,
        <<1, 17417179, 72399351, -56>>, <<1, 25572387, 19729482, -57>>, <<-1, 32878307, 174891026, -57>>>>,
      <<<<1, 26083328, 46378670, -53>>, <<1, 22171852, 11209280, -53>>, <<1, 20915788, 106271685, -53>>, <<-1, 20269437, 137095424, -54>>,
        <<1, 17614486, 139750713, -56>>, <<1, 24933789, 193239549, -57>>, <<-1, 32506323, 111354679, -57>>>>,
      <<<<1, 26214414, 213887355, -53>>, <<1, 22253408, 244141792, -53>>, <<1, 20836703, 68260659, -53>>, <<-1, 20217543, 220285428, -54>>,
        <<1, 17806831, 177347900, -56>>, <<1, 24302470, 157892233, -57>>, <<-1, 32133522, 60880371, -57>>>>,
      <<<<1, 26345469, 38912028, -53>>, <<1, 22334637, 66305312, -53>>, <<1, 20757841, 89447701, -53>>, <<-1, 20165106, 197739077, -54>>,
        <<1, 17994226, 264553462, -56>>, <<1, 23678593, 192575068, -57>>, <<-1, 31760072, 40797942, -57>>>>,
      <<<<1, 26476573, 151712998, -53>>, <<1, 22415588, 223266368, -53>>, <<1, 20679155, 71692146, -53>>, <<-1, 20112107, 129750938, -54>>,
        <<1, 18176846, 67227761, -56>>, <<1, 23061779, 170225436, -57>>, <<-1, 31386136, 152041058, -57>>>>,
      <<<<1, 26607632, 83717143, -53>>, <<1, 22496205, 90651680, -53>>, <<1, 20600704, 166446818, -53>>, <<-1, 20058598, 228918172, -54>>,
        <<1, 18354612, 241313899, -56>>, <<1, 22452487, 29281949, -57>>, <<-1, 31011874, 59840065, -57>>>>,
      <<<<1, 26738690, 220285826, -53>>, <<1, 22576515, 185426208, -53>>, <<1, 20522464, 32156734, -53>>, <<-1, 20004576, 138564868, -54>>,
        <<1, 18527648, 45987185, -56>>, <<1, 21850505, 247296184, -57>>, <<-1, 30637439, 75667034, -57>>>>,
      <<<<1, 26869726, 194512465, -53>>, <<1, 22656507, 23832480, -53>>, <<1, 20444449, 11643770, -53>>, <<-1, 19950063, 160683638, -54>>,
        <<1, 18695980, 233645480, -56>>, <<1, 21255938, 218807706, -57>>, <<-1, 30262981, 102898337, -57>>>>,
      <<<<1, 27000830, 89145427, -53>>, <<1, 22736235, 90039968, -53>>, <<1, 20366607, 177325342, -53>>, <<-1, 19895035, 238100054, -54>>,
        <<1, 18859781, 199470853, -56>>, <<1, 20668378, 215338439, -57>>, <<-1, 29888645, 182172088, -57>>>>,
      <<<<1, 27131926, 241214004, -53>>, <<1, 22815655, 162321536, -53>>, <<1, 20288986, 100315882, -53>>, <<-1, 19839537, 232705770, -54>>,
        <<1, 19019011, 91448600, -56>>, <<1, 20088162, 49937704, -57>>, <<-1, 29514572, 243999321, -57>>>>,
      <<<<1, 27262971, 109409307, -53>>, <<1, 22894741, 181666912, -53>>, <<1, 20211613, 137541843, -53>>, <<-1, 19783602, 51305025, -54>>,
        <<1, 19173675, 37489570, -56>>, <<1, 19515476, 206472922, -57>>, <<-1, 29140899, 117451349, -57>>>>,
      <<<<1, 27394073, 223983939, -53>>, <<1, 22973560, 202931872, -53>>, <<1, 20134425, 249438595, -53>>, <<-1, 19727195, 276345, -54>>,
        <<1, 19323959, 179900684, -56>>, <<1, 18949833, 94174222, -57>>, <<-1, 28767757, 89531198, -57>>>>,
      <<<<1, 27525115, 245241151, -53>>, <<1, 23052042, 163613408, -53>>, <<1, 20057494, 259547562, -53>>, <<-1, 19670380, 35655448, -54>>,
        <<1, 19469786, 108614291, -56>>, <<1, 18391730, 90869726, -57>>, <<-1, 28395274, 108678793, -57>>>>,
      <<<<1, 27656167, 170107342, -53>>, <<1, 23130230, 52430336, -53>>, <<1, 19980781, 20789598, -53>>, <<-1, 19613140, 71317810, -54>>,
        <<1, 19611292, 157806611, -56>>, <<1, 17840851, 97518264, -57>>, <<-1, 28023574, 76982513, -57>>>>,
      <<<<1, 27787285, 133320888, -53>>, <<1, 23208157, 224678816, -53>>, <<1, 19904252, 268422174, -53>>, <<-1, 19555462, 260932241, -54>>,
        <<1, 19748592, 56970435, -56>>, <<1, 17296948, 196536230, -57>>, <<-1, 27652776, 127479555, -57>>>>,
      <<<<1, 27918349, 226729289, -53>>, <<1, 23285755, 68340128, -53>>, <<1, 19827982, 47554049, -53>>, <<-1, 19497413, 73912285, -54>>,
        <<1, 19881615, 253734325, -56>>, <<1, 33521002, 62554172, -58>>, <<-1, 27282996, 112168375, -57>>>>,
      <<<<1, 28049415, 118354464, -53>>, <<1, 23363055, 251068448, -53>>, <<1, 19751938, 34275199, -53>>, <<-1, 19438979, 117040975, -54>>,
        <<1, 20010478, 84481034, -56>>, <<1, 32462518, 27986815, -58>>, <<-1, 26914345, 147732767, -57>>>>,
      <<<<1, 28180497, 39566920, -53>>, <<1, 23440069, 128077088, -53>>, <<1, 19676113, 201012569, -53>>, <<-1, 19380166, 232674781, -54>>,
        <<1, 20135249, 96780912, -56>>, <<1, 31418281, 195841743, -58>>, <<-1, 26546931, 104503083, -57>>>>,
      <<<<1, 28311527, 204609593, -53>>, <<1, 23516757, 110855104, -53>>, <<1, 19600549, 66844889, -53>>, <<-1, 19321017, 217711566, -54>>,
        <<1, 20255922, 212479500, -56>>, <<1, 30388772, 93830810, -58>>, <<-1, 26180857, 152109090, -57>>>>,
      <<<<1, 28442599, 88631588, -53>>, <<1, 23593174, 147782464, -53>>, <<1, 19525192, 241870868, -53>>, <<-1, 19261502, 145729515, -54>>,
        <<1, 20372639, 185502408, -56>>, <<1, 29373210, 224224970, -58>>, <<-1, 25816223, 249241227, -57>>>>,
      <<<<1, 28573717, 263773880, -53>>, <<1, 23669325, 20432128, -53>>, <<1, 19450042, 201287310, -53>>, <<-1, 19201629, 149364234, -54>>,
        <<1, 20485457, 43463034, -56>>, <<1, 28371505, 226772565, -58>>, <<-1, 25453126, 152307325, -57>>>>,
      <<<<1, 28704771, 141305785, -53>>, <<1, 23745144, 215969728, -53>>, <<1, 19375164, 91590072, -53>>, <<-1, 19141461, 164289760, -54>>,
        <<1, 20594334, 238333585, -56>>, <<1, 27384449, 207617797, -58>>, <<-1, 25091657, 248031942, -57>>>>,
      <<<<1, 28835853, 32497075, -53>>, <<1, 23820688, 181188192, -53>>, <<1, 19300505, 159623858, -53>>, <<-1, 19080967, 100957704, -54>>,
        <<1, 20699407, 20059035, -56>>, <<1, 26411269, 148812769, -58>>, <<-1, 24731906, 219761897, -57>>>>,
      <<<<1, 28966884, 46940231, -53>>, <<1, 23895912, 105143904, -53>>, <<1, 19226112, 111118111, -53>>, <<-1, 19020194, 88479289, -54>>,
        <<1, 20800666, 153534759, -56>>, <<1, 25452476, 94510960, -58>>, <<-1, 24373958, 149031910, -57>>>>,
      <<<<1, 29098009, 85650093, -53>>, <<1, 23970899, 206456224, -53>>, <<1, 19151903, 258306992, -53>>, <<-1, 18959086, 59746279, -54>>,
        <<1, 20898277, 245445391, -56>>, <<1, 24506946, 197977823, -58>>, <<-1, 24017894, 255394501, -57>>>>,
      <<<<1, 29229030, 102170129, -53>>, <<1, 24045538, 118517728, -53>>, <<1, 19077993, 129337328, -53>>, <<-1, 18897746, 68153138, -54>>,
        <<1, 20992148, 82542988, -56>>, <<1, 23576033, 8478969, -58>>, <<-1, 23663794, 119347373, -57>>>>,
      <<<<1, 29360117, 72424562, -53>>, <<1, 24119926, 71023424, -53>>, <<1, 19004286, 25312395, -53>>, <<-1, 18836105, 176508794, -54>>,
        <<1, 21082455, 32524343, -56>>, <<1, 22658443, 198250364, -58>>, <<-1, 23311732, 32519953, -57>>>>,
      <<<<1, 29491212, 87513406, -53>>, <<1, 24194031, 57500672, -53>>, <<1, 18930815, 122991317, -53>>, <<-1, 18774201, 220519405, -54>>,
        <<1, 21169209, 83133920, -56>>, <<1, 21754513, 36333700, -58>>, <<-1, 22961779, 220898537, -57>>>>,
      <<<<1, 29622285, 231954201, -53>>, <<1, 24267837, 133836800, -53>>, <<1, 18857599, 44609983, -53>>, <<-1, 18712059, 39706102, -54>>,
        <<1, 21252445, 48476687, -56>>, <<1, 20864359, 265034544, -58>>, <<-1, 22614006, 47239183, -57>>>>,
      <<<<1, 29753348, 2323894, -53>>, <<1, 24341351, 234829600, -53>>, <<1, 18784632, 113845127, -53>>, <<-1, 18649683, 31325272, -54>>,
        <<1, 21332223, 146197442, -56>>, <<1, 19987824, 13539726, -58>>, <<-1, 22268476, 187276895, -57>>>>,
      <<<<1, 29884401, 160452580, -53>>, <<1, 24414576, 255416416, -53>>, <<1, 18711914, 136690227, -53>>, <<-1, 18587082, 123604933, -54>>,
        <<1, 21408599, 167312765, -56>>, <<1, 19124794, 94964478, -58>>, <<-1, 21925253, 221206347, -57>>>>,
      <<<<1, 30015471, 165822621, -53>>, <<1, 24487527, 166195648, -53>>, <<1, 18639432, 121688809, -53>>, <<-1, 18524255, 26753324, -54>>,
        <<1, 21481640, 9197626, -56>>, <<1, 18275016, 92218662, -58>>, <<-1, 21584397, 4683126, -57>>>>,
      <<<<1, 30146590, 3731314, -53>>, <<1, 24560222, 109138240, -53>>, <<1, 18567169, 163425784, -53>>, <<-1, 18461195, 77883822, -54>>,
        <<1, 21551412, 37256866, -56>>, <<1, 17438199, 50707189, -58>>, <<-1, 21245962, 212749847, -57>>>>,
      <<<<1, 30277614, 192021375, -53>>, <<1, 24632583, 175786656, -53>>, <<1, 18495204, 253716226, -53>>, <<-1, 18397981, 10038520, -54>>,
        <<1, 21617893, 178559245, -56>>, <<1, 33230294, 58037861, -59>>, <<-1, 20910004, 221187087, -57>>>>,
      <<<<1, 30408702, 172505581, -53>>, <<1, 24704699, 24152256, -53>>, <<1, 18423452, 254939695, -53>>, <<-1, 18334546, 33816748, -54>>,
        <<1, 21681216, 169186881, -56>>, <<1, 31609544, 8998057, -59>>, <<-1, 20576573, 260686437, -57>>>>,
      <<<<1, 30539742, 205441202, -53>>, <<1, 24776508, 147245184, -53>>, <<1, 18351975, 43975126, -53>>, <<-1, 18270953, 139547968, -54>>,
        <<1, 21741377, 185152511, -56>>, <<1, 30015326, 10117325, -59>>, <<-1, 20245718, 103438084, -57>>>>,
      <<<<1, 30670839, 8711636, -53>>, <<1, 24848069, 251851296, -53>>, <<1, 18280715, 160903686, -53>>, <<-1, 18207161, 236849748, -54>>,
        <<1, 21798474, 204249648, -56>>, <<1, 28446174, 265189068, -59>>, <<-1, 19917483, 143178807, -57>>>>,
      <<<<1, 30801896, 225611388, -53>>, <<1, 24919332, 143490688, -53>>, <<1, 18209726, 102933927, -53>>, <<-1, 18143226, 50712242, -54>>,
        <<1, 21852516, 24900039, -56>>, <<1, 26903022, 27255353, -59>>, <<-1, 19591912, 81636615, -57>>>>,
      <<<<1, 30932983, 11156227, -53>>, <<1, 24990333, 186881408, -53>>, <<1, 18138971, 240118273, -53>>, <<-1, 18079122, 181864106, -54>>,
        <<1, 21903579, 77410986, -56>>, <<1, 25384867, 132066157, -59>>, <<-1, 19269045, 8181627, -57>>>>,
      <<<<1, 31064049, 70581155, -53>>, <<1, 25061048, 46704416, -53>>, <<1, 18068478, 228294637, -53>>, <<-1, 18014883, 180999750, -54>>,
        <<1, 21951694, 128982261, -56>>, <<1, 23892061, 39834925, -59>>, <<-1, 18948919, 159803119, -57>>>>,
      <<<<1, 31195114, 147381900, -53>>, <<1, 25131487, 77636896, -53>>, <<1, 17998237, 133964057, -53>>, <<-1, 17950508, 113121759, -54>>,
        <<1, 21996918, 55450513, -56>>, <<1, 22424164, 133787125, -59>>, <<-1, 18631571, 121304473, -57>>>>,
      <<<<1, 31326210, 106380789, -53>>, <<1, 25201668, 230472032, -53>>, <<1, 17928231, 151250105, -53>>, <<-1, 17885989, 216001798, -54>>,
        <<1, 22039308, 212238842, -56>>, <<1, 20980614, 255647241, -59>>, <<-1, 18317033, 195623530, -57>>>>,
      <<<<1, 31457251, 83925862, -53>>, <<1, 25271548, 46879552, -53>>, <<1, 17858507, 29967029, -53>>, <<-1, 17821378, 51215762, -54>>,
        <<1, 22078887, 96842993, -56>>, <<1, 19562126, 62994904, -59>>, <<-1, 18005337, 66741291, -57>>>>,
      <<<<1, 31588356, 153963624, -53>>, <<1, 25341189, 214664832, -53>>, <<1, 17789001, 42882527, -53>>, <<-1, 17756622, 235603745, -54>>,
        <<1, 22115737, 58456948, -56>>, <<1, 18167186, 197787099, -59>>, <<-1, 17696510, 169678884, -57>>>>,
      <<<<1, 31719433, 68336485, -53>>, <<1, 25410545, 67115616, -53>>, <<1, 17719763, 133465562, -53>>, <<-1, 17691777, 187421565, -54>>,
        <<1, 22149878, 67259668, -56>>, <<1, 16796569, 193238680, -59>>, <<-1, 17390580, 84550708, -57>>>>,
      <<<<1, 31850484, 123268911, -53>>, <<1, 25479617, 87146880, -53>>, <<1, 17650792, 192933095, -53>>, <<-1, 17626849, 6028830, -54>>,
        <<1, 22181359, 163962938, -56>>, <<1, 30900001, 128586039, -60>>, <<-1, 17087570, 174625249, -57>>>>,
      <<<<1, 31981571, 135233951, -53>>, <<1, 25548439, 80527456, -53>>, <<1, 17582056, 253601205, -53>>, <<-1, 17561814, 44920847, -54>>,
        <<1, 22210241, 255835179, -56>>, <<1, 28253246, 237284733, -60>>, <<-1, 16787503, 248391369, -57>>>>,
      <<<<1, 32112650, 114871163, -53>>, <<1, 25616989, 932448, -53>>, <<1, 17513579, 171003234, -53>>, <<-1, 17496702, 130755972, -54>>,
        <<1, 22236560, 149489439, -56>>, <<1, 25653316, 216393161, -60>>, <<-1, 32980800, 246925781, -58>>>>,
      <<<<1, 32243717, 169065056, -53>>, <<1, 25685265, 162620384, -53>>, <<1, 17445362, 247167703, -53>>, <<-1, 17431523, 61078753, -54>>,
        <<1, 22260360, 165261149, -56>>, <<1, 23099807, 133628939, -60>>, <<-1, 32392557, 66106363, -58>>>>,
      <<<<1, 32374773, 150527256, -53>>, <<1, 25753270, 109169280, -53>>, <<1, 17377406, 205742259, -53>>, <<-1, 17366283, 130942949, -54>>,
        <<1, 22281687, 199155007, -56>>, <<1, 20592231, 12922470, -60>>, <<-1, 31810309, 231371541, -58>>>>,
      <<<<1, 32505851, 235090944, -53>>, <<1, 25821021, 223181152, -53>>, <<1, 17309693, 268309949, -53>>, <<-1, 17300973, 182807567, -54>>,
        <<1, 22300591, 139292509, -56>>, <<1, 18129479, 159552542, -60>>, <<-1, 31234088, 31885365, -58>>>>,
      <<<<1, 32636958, 112530013, -53>>, <<1, 25888523, 199786848, -53>>, <<1, 17242221, 259072738, -53>>, <<-1, 17235597, 244339493, -54>>,
        <<1, 22317115, 98495610, -56>>, <<1, 31421995, 77694677, -61>>, <<-1, 30663917, 237040789, -58>>>>,
      <<<<1, 32767967, 124838107, -53>>, <<1, 25955712, 166290304, -53>>, <<1, 17175055, 94729897, -53>>, <<-1, 17170225, 220795647, -54>>,
        <<1, 22331288, 215023647, -56>>, <<1, 26677190, 244374550, -61>>, <<-1, 30099821, 149641342, -58>>>>,
      <<<<1, 32899044, 236378675, -53>>, <<1, 26022674, 163368384, -53>>, <<1, 17108109, 54240489, -53>>, <<-1, 17104781, 122454994, -54>>,
        <<1, 22343173, 153858642, -56>>, <<1, 22017559, 26472117, -61>>, <<-1, 29541818, 72985734, -58>>>>,
      <<<<1, 33030148, 91684654, -53>>, <<1, 26089388, 216286112, -53>>, <<1, 17041405, 145324908, -53>>, <<-1, 17039292, 152780373, -54>>,
        <<1, 22352805, 255023095, -56>>, <<1, 17443745, 80292691, -61>>, <<-1, 28989923, 242278257, -58>>>>,
      <<<<1, 33161203, 162964272, -53>>, <<1, 26155818, 133502368, -53>>, <<1, 16974982, 50741592, -53>>, <<-1, 16973802, 213560744, -54>>,
        <<1, 22360223, 41175232, -56>>, <<1, 25914724, 139460715, -62>>, <<-1, 28444151, 69411807, -58>>>>,
      <<<<1, 33292314, 175554745, -53>>, <<1, 26222017, 97938816, -53>>, <<1, 16908786, 148485290, -53>>, <<-1, 16908266, 160255032, -54>>,
        <<1, 22365472, 144146680, -56>>, <<1, 17107799, 255182267, -62>>, <<-1, 27904510, 26363823, -58>>>>,
      <<<<1, 33423331, 161845962, -53>>, <<1, 26287910, 227059584, -53>>, <<1, 16842894, 67921208, -53>>, <<-1, 16842765, 51808478, -54>>,
        <<1, 22368590, 53418006, -56>>, <<1, 16949588, 236333266, -63>>, <<-1, 27371007, 83555744, -58>>>>,
      <<<<1, 33521688, 244502960, -53>>, <<1, 26337209, 196394752, -53>>, <<1, 16793595, 142919081, -53>>, <<-1, 16793587, 141994324, -54>>,
        <<1, 22369557, 87678459, -56>>, <<1, 16809591, 194373314, -65>>, <<-1, 26974833, 144947800, -58>>>>
    >>

\* the biased exponent of the bits of a finite f64 (0 for a subnormal)
ExpField(p) == IF p[2] < 16777216 THEN 0 ELSE p[4] + 1075
\* z with the sign of y
signArctan2(y, z) == <<y[1], z[2], z[3], z[4]>>

\* the quotient u = a / b of the smaller by the larger of |y| and |x|, and
\* du with a / b = u + du to twice the precision: <<u, du>>
AtanDu ==
    [a \in Words, b \in Words, u \in Words, v \in Words |->
        <<u, RDiv(RSub(RSub(a, v), RFma(b, u, RNeg(v))), b)>>]
AtanQuotientOf == [a \in Words, b \in Words, u \in Words |-> AtanDu[a, b, u, RMul(b, u)]]
AtanQuotient == [a \in Words, b \in Words |-> AtanQuotientOf[a, b, RDiv(a, b)]]

\* d3 + d5 * v + d7 * v^2 + ... + d13 * v^5
AtanPoly ==
    [v \in Words |-> RFma(v, RFma(v, RFma(v, RFma(v, RFma(v, d13, d11), d9), d7), d5), d3)]
\* the row of cij of the quotient u >= 1 / 16
AtanRow == [u \in Words |-> cij[Trunc(RSub(RFma(u, TWO8, TWO52), TWO52)) - 15]]
\* c3 + c4 * v + c5 * v^2 + c6 * v^3
AtanCubic ==
    [v \in Words, c \in Seq(Words) |-> RFma(v, RFma(v, RFma(v, c[7], c[6]), c[5]), c[4])]

\* The four cases of the routine, k = 1 .. 4:
\* (i) x > 0 and |y| < |x|: atan(u); (ii) x > 0 and |x| <= |y|:
\* pi / 2 - atan(u); (iii) x < 0 and |x| < |y|: pi / 2 + atan(u);
\* (iv) x < 0 and |y| <= |x|: pi - atan(u)
AtanCase(x, ax, ay) ==
    IF x[1] > 0 THEN (IF RLt(ay, ax) THEN 1 ELSE 2) ELSE (IF RLt(ax, ay) THEN 3 ELSE 4)

\* u < 1 / 16, the series: zz = u^3 * (d3 + d5 * u^2 + ...)
AtanSeriesFrom ==
    [p \in Words, p1 \in Words, u \in Words, du \in Words, zz \in Words, t2 \in Words |->
        RAdd(t2, RSub(RSub(RAdd(p1, RSub(RSub(p, t2), u)), du), zz))]
AtanSeriesPast ==
    [u \in Words, du \in Words, zz \in Words, t2 \in Words |->
        RAdd(t2, RAdd(RAdd(RAdd(hpi1, RAdd(RSub(hpi, t2), u)), du), zz))]
AtanSeriesTail ==
    [k \in Int, u \in Words, du \in Words, uv \in Words, pv \in Words |->
        IF k = 1 THEN RAdd(u, RFma(uv, pv, du))
        ELSE IF k = 3 THEN AtanSeriesPast[u, du, RMul(uv, pv), RAdd(hpi, u)]
        ELSE AtanSeriesFrom[IF k = 2 THEN hpi ELSE opi, IF k = 2 THEN hpi1 ELSE opi1,
                            u, du, RMul(uv, pv), RSub(IF k = 2 THEN hpi ELSE opi, u)]]
AtanSeries ==
    [k \in Int, u \in Words, du \in Words, v \in Words |->
        AtanSeriesTail[k, u, du, RMul(u, v), AtanPoly[v]]]

\* u >= 1 / 16, the row c of the table: v = (u - c0) + du, dv what the sum
\* v has lost, p the cubic of v
AtanDv ==
    [t3 \in Words, du \in Words, v \in Words |->
        IF RGt(RAbs(t3), RAbs(du)) THEN RAdd(RSub(t3, v), du) ELSE RAdd(RSub(du, v), t3)]
AtanTableTail ==
    [k \in Int, c \in Seq(Words), t3 \in Words, du \in Words, v \in Words, p \in Words |->
        IF k = 1
        THEN RAdd(c[2], RFma(v, c[3], RFma(AtanDv[t3, du, v], c[3], RMul(RMul(v, v), p))))
        ELSE IF k = 3
        THEN RAdd(RAdd(hpi, c[2]), RFma(v, RFma(v, p, c[3]), hpi1))
        ELSE RAdd(RSub(IF k = 2 THEN hpi ELSE opi, c[2]),
                  RFma(RNeg(v), RFma(v, p, c[3]), IF k = 2 THEN hpi1 ELSE opi1))]
AtanTableP ==
    [k \in Int, c \in Seq(Words), t3 \in Words, du \in Words, v \in Words |->
        AtanTableTail[k, c, t3, du, v, AtanCubic[v, c]]]
AtanTableV ==
    [k \in Int, c \in Seq(Words), t3 \in Words, du \in Words |->
        AtanTableP[k, c, t3, du, RAdd(t3, du)]]
AtanTable ==
    [k \in Int, u \in Words, du \in Words, c \in Seq(Words) |->
        AtanTableV[k, c, RSub(u, c[1]), du]]

\* the angle of case k for the quotient q = <<u, du>>
AtanOf ==
    [k \in Int, q \in Seq(Words) |->
        IF RLt(q[1], inv16) THEN AtanSeries[k, q[1], q[2], RMul(q[1], q[1])]
        ELSE AtanTable[k, q[1], q[2], AtanRow[q[1]]]]
AtanScaled ==
    [x \in Words, ax \in Words, ay \in Words |->
        AtanOf[AtanCase(x, ax, ay),
               AtanQuotient[IF RLt(ay, ax) THEN ay ELSE ax, IF RLt(ay, ax) THEN ax ELSE ay]]]
\* both scaled by 2^-500 when one is above 2^500
AtanScaleDown ==
    [x \in Words, ax \in Words, ay \in Words |->
        AtanScaled[x,
                   IF RGt(ax, two500) \/ RGt(ay, two500) THEN RMul(ax, twom500) ELSE ax,
                   IF RGt(ax, two500) \/ RGt(ay, two500) THEN RMul(ay, twom500) ELSE ay]]
\* both scaled by 2^500 when one is below 2^-500
AtanScaleUp ==
    [x \in Words, ax \in Words, ay \in Words |->
        AtanScaleDown[x,
                      IF RLt(ax, twom500) \/ RLt(ay, twom500) THEN RMul(ax, two500) ELSE ax,
                      IF RLt(ax, twom500) \/ RLt(ay, twom500) THEN RMul(ay, two500) ELSE ay]]
\* finite y and x other than 0; de is the difference of their exponents
AtanFinite ==
    [y \in Words, x \in Words, de \in Int |->
        IF de >= 57 THEN signArctan2(y, hpi)
        ELSE IF de <= -57
        THEN (IF x[1] > 0 THEN signArctan2(y, RDiv(RAbs(y), RAbs(x)))
              ELSE signArctan2(y, opi))
        ELSE signArctan2(y, AtanScaleUp[x, RAbs(x), RAbs(y)])]
Atan2At ==
    [y \in Words, x \in Words |->
        IF IsNaN(y) \/ IsNaN(x) THEN NaN
        ELSE IF IsZero(y) THEN signArctan2(y, IF x[1] < 0 THEN opi ELSE Zero)
        ELSE IF IsZero(x) THEN signArctan2(y, hpi)
        ELSE IF IsInf(x)
        THEN signArctan2(y, IF x[1] > 0 THEN (IF IsInf(y) THEN qpi ELSE Zero)
                            ELSE (IF IsInf(y) THEN tqpi ELSE opi))
        ELSE IF IsInf(y) THEN signArctan2(y, hpi)
        ELSE AtanFinite[y, x, ExpField(y) - ExpField(x)]]
\* f64::atan2: y.atan2(x)
Atan2(y, x) == Atan2At[y, x]

\* x.atan2(z) / (2.0 * PI)
Atan2Turns(x, z) == RDiv(Atan2(x, z), TwoPi)

UVOfUnit(n) == <<RAdd(Atan2Turns(n[1], n[3]), Half), RAdd(RMul(n[2], Half), Half)>>

u_v_from_sphere_hit_point(hit_point_on_sphere) ==
    UVOfUnit(UnitVector(hit_point_on_sphere))

NoHit == [some |-> FALSE]

\* the HitRecord literal with the normal never flipped
HitRecordNoFlip(sphere, root, p, normal, front_face, uv) ==
    [some |-> TRUE,
     t |-> root,
     point |-> p,
     normal |-> normal,
     front_face |-> front_face,
     material |-> sphere.material,
     u |-> uv[1],
     v |-> uv[2]]

\* the HitRecord literal of Sphere::hit
HitRecord(sphere, root, p, normal, front_face, uv) ==
    [some |-> TRUE,
     t |-> root,
     point |-> p,
     normal |-> IF front_face THEN normal ELSE VNeg(normal),
     front_face |-> front_face,
     material |-> sphere.material,
     u |-> uv[1],
     v |-> uv[2]]

HitRecordFacing(sphere, ray, root, p, normal) ==
    HitRecord(sphere, root, p, normal,
              RLt(Dot(ray.direction, normal), Zero),
              u_v_from_sphere_hit_point(VSub(p, sphere.center)))

HitRecordPoint(sphere, ray, root, p) ==
    HitRecordFacing(sphere, ray, root, p, VDiv(VSub(p, sphere.center), sphere.radius))

\* the record Sphere::hit returns for an accepted root
HitRecordAt(sphere, ray, root) == HitRecordPoint(sphere, ray, root, At(ray, root))

\* the test of one root against the open interval (t_min, t_max)
RootAccepted(root, t_min, t_max) == RLt(root, t_max) /\ RGt(root, t_min)

\* the loop over [root_a, root_b] with the roots tried in the wrong order
HitTryFarFirst(sphere, ray, t_min, t_max, root_a, root_b) ==
    IF RootAccepted(root_b, t_min, t_max) THEN HitRecordAt(sphere, ray, root_b)
    ELSE IF RootAccepted(root_a, t_min, t_max) THEN HitRecordAt(sphere, ray, root_a)
    ELSE NoHit

\* the loop over [root_a, root_b]
HitTry(sphere, ray, t_min, t_max, root_a, root_b) ==
    IF RootAccepted(root_a, t_min, t_max) THEN HitRecordAt(sphere, ray, root_a)
    ELSE IF RootAccepted(root_b, t_min, t_max) THEN HitRecordAt(sphere, ray, root_b)
    ELSE NoHit

HitRoots(sphere, ray, t_min, t_max, a, half_b, sqrtd) ==
    HitTry(sphere, ray, t_min, t_max,
           RDiv(RSub(RNeg(half_b), sqrtd), a),
           RDiv(RAdd(RNeg(half_b), sqrtd), a))

HitDiscriminant(sphere, ray, t_min, t_max, a, half_b, discriminant) ==
    IF RGe(discriminant, Zero)
    THEN HitRoots(sphere, ray, t_min, t_max, a, half_b, RSqrt(discriminant))
    ELSE NoHit

HitQuadratic(sphere, ray, t_min, t_max, a, half_b, c) ==
    HitDiscriminant(sphere, ray, t_min, t_max, a, half_b,
                    RSub(RMul(half_b, half_b), RMul(a, c)))

HitOc(sphere, ray, t_min, t_max, oc) ==
    HitQuadratic(sphere, ray, t_min, t_max,
                 LengthSquared(ray.direction),
                 Dot(oc, ray.direction),
                 RSub(LengthSquared(oc), RMul(sphere.radius, sphere.radius)))

\* Sphere::hit.  A zero direction gives a = 0 and the roots 0/0 = NaN, which
\* fail both comparisons.
Hit(sphere, ray, t_min, t_max) ==
    HitOc(sphere, ray, t_min, t_max, VSub(ray.origin, sphere.center))

----------------------------------------------------------------------------
(* raytracer.rs: hit_world, clamp *)

HitWorldTake(acc, hit) ==
    IF hit.some THEN [closest_so_far |-> hit.t, hit_record |-> hit] ELSE acc

\* an iteration that tests the sphere against the whole interval
HitWorldStepWide(acc, sphere, r, t_min) ==
    HitWorldTake(acc, Hit(sphere, r, t_min, PosInf))

\* one iteration of hit_world's loop over the state (closest_so_far, hit_record)
HitWorldStep(acc, sphere, r, t_min) ==
    HitWorldTake(acc, Hit(sphere, r, t_min, acc.closest_so_far))

RECURSIVE HitWorldLoop(_, _, _, _)
HitWorldLoop(world, r, t_min, acc) ==
    IF world = <<>> THEN acc
    ELSE HitWorldLoop(Tail(world), r, t_min, HitWorldStep(acc, Head(world), r, t_min))

hit_world(world, r, t_min, t_max) ==
    HitWorldLoop(world, r, t_min,
                 [closest_so_far |-> t_max, hit_record |-> NoHit]).hit_record

clamp(value) ==
    IF RLt(value, Zero) THEN Zero
    ELSE IF RGt(value, One) THEN One
    ELSE value

\* Srgb values (f32), channel by channel
CAdd(a, b) == <<FAdd(a[1], b[1]), FAdd(a[2], b[2]), FAdd(a[3], b[3])>>
CMul(a, b) == <<FMul(a[1], b[1]), FMul(a[2], b[2]), FMul(a[3], b[3])>>
CDiv(a, k) == <<FDiv(a[1], k), FDiv(a[2], k), FDiv(a[3], k)>>
CClamp(a) == <<clamp(a[1]), clamp(a[2]), clamp(a[3])>>

----------------------------------------------------------------------------
(* materials.rs: scatter.  The random draws are parameters: rnd is the point
   random_in_unit_sphere() returns, draw the value of rng.gen::<f64>(). *)

NoRay == [some |-> FALSE]
SomeRay(r) == [some |-> TRUE, ray |-> r]
Absorbed == [some |-> FALSE]
Scattered(sr, attenuation) == [some |-> TRUE, sr |-> sr, attenuation |-> attenuation]

LightScatter(m, ray, hit_record) == Scattered(NoRay, White)

LambertianDirection(sum, normal) == IF near_zero(sum) THEN normal ELSE sum

LambertianTarget(m, hit_record, target) ==
    Scattered(SomeRay(Ray(hit_record.point, VSub(target, hit_record.point))), m.albedo)

LambertianScatter(m, ray, hit_record, rnd) ==
    LambertianTarget(m, hit_record,
        VAdd(hit_record.point,
             LambertianDirection(VAdd(hit_record.normal, rnd), hit_record.normal)))

reflect(v, n) == VSub(v, VScale(n, RMul(Two, Dot(v, n))))

\* a scatter that keeps every perturbed reflection
MetalScatteredAlways(m, hit_record, scattered) ==
    Scattered(SomeRay(scattered), m.albedo)

MetalScattered(m, hit_record, scattered) ==
    IF RGt(Dot(scattered.direction, hit_record.normal), Zero)
    THEN Scattered(SomeRay(scattered), m.albedo)
    ELSE Absorbed

MetalScatter(m, ray, hit_record, rnd) ==
    MetalScattered(m, hit_record,
        Ray(hit_record.point,
            VAdd(reflect(ray.direction, hit_record.normal), VScale(rnd, m.fuzz))))

RefractParallel(n, r_out_perp) ==
    VAdd(r_out_perp,
         VScale(n, RMul(MinusOne, RSqrt(RAbs(RSub(One, LengthSquared(r_out_perp)))))))

RefractPerp(uv, n, etai_over_etat, cos_theta) ==
    RefractParallel(n, VScale(VAdd(uv, VScale(n, cos_theta)), etai_over_etat))

refract(uv, n, etai_over_etat) ==
    RefractPerp(uv, n, etai_over_etat, RMin(Dot(VNeg(uv), n), One))

RSquare(x) == RMul(x, x)
RPow5(x) == RMul(x, RSquare(RSquare(x)))

ReflectanceOf(r0, cosine) == RAdd(r0, RMul(RSub(One, r0), RPow5(RSub(One, cosine))))

reflectance(cosine, ref_idx) ==
    ReflectanceOf(RSquare(RDiv(RSub(One, ref_idx), RAdd(One, ref_idx))), cosine)

GlassBranch(hit_record, draw, refraction_ratio, unit_direction, cos_theta, sin_theta) ==
    IF RGt(RMul(refraction_ratio, sin_theta), One)
          \/ RGt(reflectance(cos_theta, refraction_ratio), draw)
    THEN Scattered(SomeRay(Ray(hit_record.point,
                               reflect(unit_direction, hit_record.normal))),
                   White)
    ELSE Scattered(SomeRay(Ray(hit_record.point,
                               refract(unit_direction, hit_record.normal,
                                       refraction_ratio))),
                   White)

GlassCos(hit_record, draw, refraction_ratio, unit_direction, cos_theta) ==
    GlassBranch(hit_record, draw, refraction_ratio, unit_direction, cos_theta,
                RSqrt(RSub(One, RMul(cos_theta, cos_theta))))

GlassUnit(hit_record, draw, refraction_ratio, unit_direction) ==
    GlassCos(hit_record, draw, refraction_ratio, unit_direction,
             RMin(Dot(VNeg(unit_direction), hit_record.normal), One))

\* a Glass scatter with the two refraction ratios exchanged
GlassScatterSwapped(m, ray, hit_record, draw) ==
    GlassUnit(hit_record, draw,
              IF hit_record.front_face THEN m.ior ELSE RDiv(One, m.ior),
              UnitVector(ray.direction))

GlassScatter(m, ray, hit_record, draw) ==
    GlassUnit(hit_record, draw,
              IF hit_record.front_face THEN RDiv(One, m.ior) ELSE m.ior,
              UnitVector(ray.direction))

\* a panic (index out of bounds) in place of a returned value
Panicked == [some |-> FALSE, panic |-> TRUE]
TexelColor(color) == [some |-> TRUE, panic |-> FALSE, color |-> color]

\* u64 arithmetic.  A value is <<o, h, m, l>>: the number
\* h * 2^56 + m * 2^28 + l with h < 2^8 and m, l < 2^28, and o, whether an
\* operation on the way to it has overflowed.  An operation that overflows
\* panics in a debug build and wraps around in a release build.
U64(n) == <<FALSE, 0, n \div 268435456, n % 268435456>>
U64_MAX == <<FALSE, 255, 268435455, 268435455>>

\* (x as u64): truncation; NaN and the negative values give 0, the values of
\* 2^64 and more u64::MAX
AsU64Up(p, k) ==
    <<FALSE, p[2] \div Pow2(28 - k),
      (p[2] % Pow2(28 - k)) * Pow2(k) + p[3] \div Pow2(28 - k),
      (p[3] % Pow2(28 - k)) * Pow2(k)>>
AsU64Down(p, k) ==
    IF k >= 28 THEN <<FALSE, 0, 0, p[2] \div Pow2(k - 28)>>
    ELSE <<FALSE, 0, p[2] \div Pow2(k), (p[2] % Pow2(k)) * Pow2(28 - k) + p[3] \div Pow2(k)>>
AsU64(p) ==
    IF IsNaN(p) \/ p[1] < 0 \/ IsZero(p) THEN U64(0)
    ELSE IF p[4] > 11 THEN U64_MAX
    ELSE IF p[4] < -52 THEN U64(0)
    ELSE IF p[4] >= 0 THEN AsU64Up(p, p[4])
    ELSE AsU64Down(p, -p[4])
\* (n as f64): the nearest f64
U64AsF64(a) == Pack(1, a[2], a[3], a[4], FALSE, 0)
\* a u64 below 2^31 as a number, USIZE_MAX for the larger ones
U64Int(a) ==
    IF a[2] = 0 /\ a[3] < 8 THEN a[3] * 268435456 + a[4] ELSE USIZE_MAX

\* a + b
U64AddHigh(a, b, m0, l0) ==
    <<a[1] \/ b[1] \/ a[2] + b[2] + m0 \div 268435456 >= 256,
      (a[2] + b[2] + m0 \div 268435456) % 256, m0 % 268435456, l0 % 268435456>>
U64AddMid(a, b, l0) == U64AddHigh(a, b, a[3] + b[3] + l0 \div 268435456, l0)
U64Add(a, b) == U64AddMid(a, b, a[4] + b[4])

\* a * b from five limbs of 14 bits each (the highest of 8 bits): the
\* columns c0 .. c4 of the partial products with the carries from the lowest
\* up; high tells whether a product above column 4 is nonzero
U64Mul5(o, high, r0, r1, r2, r3, k4) ==
    <<o \/ high \/ k4 >= 256, k4 % 256, r3 * 16384 + r2, r1 * 16384 + r0>>
U64Mul4(o, high, r0, r1, r2, k3, c4) ==
    U64Mul5(o, high, r0, r1, r2, k3 % 16384, c4 + k3 \div 16384)
U64Mul3(o, high, r0, r1, k2, c3, c4) ==
    U64Mul4(o, high, r0, r1, k2 % 16384, c3 + k2 \div 16384, c4)
U64Mul2(o, high, r0, k1, c2, c3, c4) ==
    U64Mul3(o, high, r0, k1 % 16384, c2 + k1 \div 16384, c3, c4)
U64Mul1(o, high, c0, c1, c2, c3, c4) ==
    U64Mul2(o, high, c0 % 16384, c1 + c0 \div 16384, c2, c3, c4)
U64MulLimbs(o, a4, a3, a2, a1, a0, b4, b3, b2, b1, b0) ==
    U64Mul1(o,
            \/ a1 * b4 + a2 * b3 + a3 * b2 + a4 * b1 # 0
            \/ a2 * b4 + a3 * b3 + a4 * b2 # 0
            \/ a3 * b4 + a4 * b3 # 0
            \/ a4 * b4 # 0,
            a0 * b0,
            a0 * b1 + a1 * b0,
            a0 * b2 + a1 * b1 + a2 * b0,
            a0 * b3 + a1 * b2 + a2 * b1 + a3 * b0,
            a0 * b4 + a1 * b3 + a2 * b2 + a3 * b1 + a4 * b0)
U64Mul(a, b) ==
    U64MulLimbs(a[1] \/ b[1],
                a[2], a[3] \div 16384, a[3] % 16384, a[4] \div 16384, a[4] % 16384,
                b[2], b[3] \div 16384, b[3] % 16384, b[4] \div 16384, b[4] % 16384)

\* self.height - 1 in u64
U64Pred(n) == IF n = 0 THEN <<TRUE, 255, 268435455, 268435455>> ELSE U64(n - 1)

\* (x.floor() as u64)
FloorAsU64(x) == AsU64(RFloor(x))

\* pixel_r as f32 / 255.0
TexelChannel(byte) == FDiv(FromInt(byte), FromInt(255))

\* self.pixels[base_pixel], [base_pixel + 1], [base_pixel + 2]: a Vec index
\* at or beyond pixels.len() panics
TexturePixel(tex, base_pixel) ==
    IF base_pixel < Len(tex.pixels) - 2
    THEN TexelColor(<<TexelChannel(tex.pixels[base_pixel + 1]),
                      TexelChannel(tex.pixels[base_pixel + 2]),
                      TexelChannel(tex.pixels[base_pixel + 3])>>)
    ELSE Panicked

\* 3 * ((vv.floor() as u64) * self.width as u64 + (uu.floor() as u64))
TextureBase(tex, uu, vv) ==
    U64Mul(U64(3), U64Add(U64Mul(FloorAsU64(vv), U64(tex.width)), FloorAsU64(uu)))

\* the pixel at base_pixel as usize; the debug build has panicked where the
\* arithmetic overflowed
TextureIndexed(tex, base, overflowed, build) ==
    IF build = "debug" /\ (overflowed \/ base[1]) THEN Panicked
    ELSE TexturePixel(tex, U64Int(base))

\* if rot > 1.0 { rot = rot - 1.0 }
TextureRot(rot) == IF RGt(rot, One) THEN RSub(rot, One) ELSE rot

\* Texture::get_albedo
get_albedo(tex, u, v, build) ==
    TextureIndexed(tex,
        TextureBase(tex,
            RMul(TextureRot(RAdd(u, tex.h_offset)), FromInt(tex.width)),
            RMul(RSub(One, v), U64AsF64(U64Pred(tex.height)))),
        U64Pred(tex.height)[1], build)

TextureAttenuated(scattered, texel) ==
    IF texel.panic THEN Panicked ELSE Scattered(scattered.sr, texel.color)

\* Texture::scatter: the scatter geometry of Lambertian, then get_albedo
TextureScatter(m, ray, hit_record, rnd, build) ==
    TextureAttenuated(LambertianScatter(m, ray, hit_record, rnd),
                      get_albedo(m, hit_record.u, hit_record.v, build))

\* Material::scatter
Scatter(m, ray, hit_record, rnd, draw, build) ==
    CASE m.kind = "Lambertian" -> LambertianScatter(m, ray, hit_record, rnd)
      [] m.kind = "Metal" -> MetalScatter(m, ray, hit_record, rnd)
      [] m.kind = "Glass" -> GlassScatter(m, ray, hit_record, draw)
      [] m.kind = "Texture" -> TextureScatter(m, ray, hit_record, rnd, build)
      [] m.kind = "Light" -> LightScatter(m, ray, hit_record)

----------------------------------------------------------------------------
(* raytracer.rs: find_lights and ray_color, one action per step of an
   invocation; a call pushes a frame and a return pops it *)

\* the lights collected in the reverse of the scene order
RECURSIVE find_lights_reversed(_)
find_lights_reversed(world) ==
    IF world = <<>> THEN <<>>
    ELSE find_lights_reversed(Tail(world))
         \o (IF Head(world).material.kind = "Light" THEN <<Head(world)>> ELSE <<>>)

RECURSIVE find_lights(_)
find_lights(world) ==
    IF world = <<>> THEN <<>>
    ELSE (IF Head(world).material.kind = "Light" THEN <<Head(world)>> ELSE <<>>)
         \o find_lights(Tail(world))

T_MIN == Q(1, 1000)
\* std::f64::MAX, the largest finite value
F64_MAX == <<1, 33554431, 268435455, 971>>

\* t and u of ray_color's miss branch
SkyT(ray) == clamp(FMul(Half, FAdd(AsF32(UnitVector(ray.direction)[2]), One)))
SkyU(ray) == clamp(FMul(Half, FAdd(AsF32(UnitVector(ray.direction)[1]), One)))

\* the gradient with its two end colors exchanged
SkyBlendSwapped(t) ==
    <<FAdd(FMul(FSub(One, t), Half), FMul(t, One)),
      FAdd(FMul(FSub(One, t), SevenTenths), FMul(t, One)),
      FAdd(FMul(FSub(One, t), One), FMul(t, One))>>

\* the gradient sky of ray_color's miss branch
SkyBlend(t) ==
    <<FAdd(FMul(FSub(One, t), One), FMul(t, Half)),
      FAdd(FMul(FSub(One, t), One), FMul(t, SevenTenths)),
      FAdd(FMul(FSub(One, t), One), FMul(t, One))>>

SkyGradient(ray) == SkyBlend(SkyT(ray))

\* 0.7 * *pixel_red as f32 / 255.0
SkyChannel(byte) == FDiv(FMul(SevenTenths, FromInt(byte)), FromInt(255))
\* pixels[base], pixels[base + 1], pixels[base + 2]: a Vec index at or beyond
\* pixels.len() panics
SkyPixelAt(tex, base) ==
    IF base < Len(tex.pixels) - 2
    THEN TexelColor(<<SkyChannel(tex.pixels[base + 1]),
                      SkyChannel(tex.pixels[base + 2]),
                      SkyChannel(tex.pixels[base + 3])>>)
    ELSE Panicked

\* (n as f32) of a usize: the nearest f32, rounded once.  Below 2^53 the f64
\* is exact; from 2^53 on the low word is folded into the lowest bit of the
\* middle word, which lies below the rounding position of f32.
U64AsF32(a) ==
    IF a[2] = 0 /\ a[3] < 33554432 THEN AsF32(Pack(1, a[2], a[3], a[4], FALSE, 0))
    ELSE AsF32(Pack(1, a[2],
                    IF a[4] # 0 /\ a[3] % 2 = 0 THEN a[3] + 1 ELSE a[3],
                    0, FALSE, 0))

\* (f * (*width - 1) as f32) as usize
SkyCoord(f, n) == AsU64(FMul(f, U64AsF32(U64Pred(n))))

\* (y * *width + x) * 3
SkyBase(tex, x, y) == U64Mul(U64Add(U64Mul(y, U64(tex.width)), x), U64(3))

\* the pixel at the index; the debug build has panicked where *width - 1,
\* *height - 1 or the index arithmetic overflowed
SkyIndexed(tex, base, overflowed, build) ==
    IF build = "debug" /\ (overflowed \/ base[1]) THEN Panicked
    ELSE SkyPixelAt(tex, U64Int(base))

\* the equirectangular sky texture lookup of the miss branch
SkyTexture(ray, tex, build) ==
    SkyIndexed(tex,
        SkyBase(tex, SkyCoord(SkyU(ray), tex.width),
                     SkyCoord(FSub(One, SkyT(ray)), tex.height)),
        U64Pred(tex.width)[1] \/ U64Pred(tex.height)[1], build)

\* white where the source has Srgb::new(0.0, 0.0, 0.0)
WhiteForBlack == White
BlackColor == Black

\* the probability factor of the light-sampling gate
PROB == Q(1, 10)
PROB_GLASS == Q(1, 20)
GateProb(material) == IF material.kind = "Glass" THEN PROB_GLASS ELSE PROB

\* the first two conjuncts of the gate: lights.len() > 0 && rng.gen() > 1 - len*prob
\* (the draw is made only where there is a light)
GateDrawn(lts, material, draw) ==
    /\ Len(lts) > 0
    /\ RGt(draw, RSub(One, RMul(FromInt(Len(lts)), GateProb(material))))

\* max_depth - 2 in usize, reached only when the first two conjuncts hold:
\* below zero it panics in a debug build and wraps around in a release build.
\* USIZE_MAX stands for usize::MAX, far above every depth.
GateUnderflows(max_depth) == max_depth < 2
\* a gate that is open at every remaining depth: depth > 0
GateBoundZero(max_depth) == 0
GateBound(max_depth) ==
    IF max_depth < 2 THEN USIZE_MAX - (1 - max_depth) ELSE max_depth - 2
GatePanic(lts, material, draw, max_depth, build) ==
    GateDrawn(lts, material, draw) /\ GateUnderflows(max_depth) /\ build = "debug"
GatePasses(lts, material, draw, max_depth, depth) ==
    GateDrawn(lts, material, draw) /\ depth > GateBound(max_depth)

\* one invocation of ray_color: its arguments, its position (at), its locals
\* (hit, albedo, sr, acc = light_red/green/blue, li = the light being sampled,
\* lcolors = the target_color of each light ray so far, target = the
\* target_color of the continuation ray) and what it has done so far (nsub and
\* nlight count the calls it made, entered is the value of calls when it
\* started)
Frame(kind, ray, max_depth, depth, entered) ==
    [kind |-> kind, ray |-> ray, max_depth |-> max_depth, depth |-> depth,
     at |-> "entry", hit |-> NoHit, albedo |-> Black, sr |-> NoRay,
     acc |-> Black, li |-> 0, lcolors |-> <<>>, target |-> Black,
     nsub |-> 0, nlight |-> 0, entered |-> entered]

\* config.rs: Sky (texture: None is the gradient sky) and Config.sky: None
SkyNone == [kind |-> "None", pixels |-> <<>>, width |-> 0, height |-> 0]
SkyDefault == [kind |-> "Gradient", pixels |-> <<>>, width |-> 0, height |-> 0]
SkyTex(bytes, width, height) ==
    [kind |-> "Texture", pixels |-> bytes, width |-> width, height |-> height]

\* camera.rs: the computed fields of a Camera
Camera(origin, lower_left_corner, horizontal, vertical) ==
    [origin |-> origin, lower_left_corner |-> lower_left_corner,
     horizontal |-> horizontal, vertical |-> vertical]
\* half_height of a vertical field of view of 90 degrees,
\* (90.0f64.to_radians() / 2.0).tan(): the f64 next below 1
TanHalfFov == <<1, 33554431, 268435455, -53>>
\* Camera::new((0,0,0), (0,0,-1), (0,1,0), 90.0, 1.0): w = (0,0,1),
\* u = (1,0,0), v = (0,1,0) and half_width = half_height
FrontCamera ==
    Camera(V3(0, 0, 0),
           <<RNeg(TanHalfFov), RNeg(TanHalfFov), MinusOne>>,
           <<RMul(Two, TanHalfFov), Zero, Zero>>,
           <<Zero, RMul(Two, TanHalfFov), Zero>>)
get_ray(camera, u, v) ==
    Ray(camera.origin,
        VSub(VAdd(VAdd(camera.lower_left_corner, VScale(camera.horizontal, u)),
                  VScale(camera.vertical, v)),
             camera.origin))

\* config.rs: Config, with the profile the crate was built in
Config(width, height, samples_per_pixel, max_depth, sky, camera, objects, build) ==
    [width |-> width, height |-> height, samples_per_pixel |-> samples_per_pixel,
     max_depth |-> max_depth, sky |-> sky, camera |-> camera, objects |-> objects,
     build |-> build]

\* the profiles of a build: overflow checks on (debug) or off (release)
Builds == {"debug", "release"}

NoScene == Config(0, 0, 0, 0, SkyNone, FrontCamera, <<>>, "release")
NoEnv == [seed |-> 0, nan_byte |-> 0]

(* the scenes, camera rays and random draws of the bounded model *)

MaxDepth == 2
\* the draws at the gate that are not 0.0 in one top-level call
MaxGateDraws == 4

Grey == <<Half, Half, Half>>
SphereA(m) == Sphere(V3(0, 0, 0), One, m)
LightL == Sphere(V3(0, 3, 0), One, Light)
SceneMaterials == {Lambertian(Grey), Metal(Grey, Two), Glass(Q(3, 2))}
Skies == {SkyNone, SkyDefault, SkyTex(<<255, 0, 0, 0, 255, 0, 0, 0, 255, 255, 255, 255>>, 2, 2)}
Scene(objects, sky, max_depth, build) ==
    Config(1, 1, 1, max_depth, sky, FrontCamera, objects, build)
\* scenes without lights, under every sky
UnlitScenes ==
    {Scene(objects, sky, max_depth, "release") :
        objects \in {<<>>} \cup {<<SphereA(m)>> : m \in SceneMaterials},
        sky \in Skies,
        max_depth \in 0..MaxDepth}
\* scenes with one light, in both build profiles
LitScenes ==
    {Scene(objects, SkyDefault, max_depth, build) :
        objects \in {<<LightL>>} \cup {<<SphereA(m), LightL>> : m \in SceneMaterials},
        max_depth \in 1..MaxDepth,
        build \in Builds}
\* a scene whose paths have a bounce below the two levels that sample lights
DeepScenes ==
    {Scene(<<SphereA(Glass(Q(3, 2))), LightL>>, SkyDefault, MaxDepth + 1, "release")}
Scenes == UnlitScenes \cup LitScenes \cup DeepScenes
TopRays ==
    {Ray(V3(0, -5, 0), V3(0, 1, 0)),
     Ray(V3(0, 10, 0), V3(0, -1, 0)),
     Ray(V3(0, 0, 0), V3(1, 0, 0))}
\* a scene with two lights: a polished wall sphere hit on its side, with a
\* light above and a light below the hit point and a polished sphere between
\* the hit point and the light above
WallX == Sphere(V3(0, -3, 0), One, Metal(Grey, Zero))
Occluder == Sphere(V3(-1, 0, 0), One, Metal(Grey, Zero))
LightUp == Sphere(V3(-1, 3, 0), One, Light)
LightDown == Sphere(V3(-1, -6, 0), One, Light)
OccludedScenes ==
    {Scene(<<WallX, Occluder, LightUp, LightDown>>, SkyDefault, MaxDepth, "release")}
SideRay == Ray(V3(-5, -3, 0), V3(1, 0, 0))
\* the top-level calls of the model: a scene and a camera ray
\* scenes whose albedo has components outside [0, 1]: above 1, below 0 and
\* f32::INFINITY
Overbright == <<Two, MinusOne, Half>>
Unbounded == <<PosInf, Half, Half>>
WideScenes ==
    {Scene(<<SphereA(Lambertian(albedo))>>, SkyDefault, max_depth, "release") :
        albedo \in {Overbright, Unbounded}, max_depth \in 1..MaxDepth}
\* sky textures whose lookup can panic: a buffer of one byte per pixel (a
\* grey image) and an image of width and height 0
SkyGrey == SkyTex(<<255, 0, 0, 255>>, 2, 2)
SkyEmpty == SkyTex(<<>>, 0, 0)
BrokenSkyScenes ==
    {Scene(<<>>, sky, 1, build) : sky \in {SkyGrey, SkyEmpty}, build \in Builds}
\* a textured sphere: its lowest point maps to the column past the last one
\* of the last row
TexturedScenes ==
    {Scene(<<SphereA(Texture(White, TexBytes(2, 2), 2, 2, Half))>>, SkyDefault, 1, "release")}
TraceInputs ==
    (Scenes \X TopRays) \cup (OccludedScenes \X {SideRay}) \cup (WideScenes \X TopRays)
        \cup (BrokenSkyScenes \X TopRays) \cup (TexturedScenes \X TopRays)
\* points of the open unit ball
RndPoints == {<<Zero, Half, Zero>>, <<Half, Zero, Zero>>}
\* values of [0, 1)
Draws == {Zero, Q(93, 100), Q(99, 100)}

NoReturn == [some |-> FALSE, color |-> Black]
NoLast == [outcome |-> "none"]

Top == stack[Len(stack)]
Running == pc = "trace" /\ stack # <<>>
\* an entry that goes on to hit_world whatever the remaining depth
AtEntryAnyDepth == Running /\ Top.at = "entry" /\ ~ret.some
AtEntry == Running /\ Top.at = "entry" /\ ~ret.some /\ Top.depth > 0
\* an intersection test that, for a light ray, sees the emitters alone
TopHitUnoccluded ==
    IF Top.kind = "light" THEN hit_world(lights, Top.ray, T_MIN, F64_MAX)
    ELSE hit_world(scene.objects, Top.ray, T_MIN, F64_MAX)
TopHit == hit_world(scene.objects, Top.ray, T_MIN, F64_MAX)

\* the frame on top replaced by f
SetTop(f) == [stack EXCEPT ![Len(stack)] = f]

\* return color from the invocation on top of the stack (the random source
\* is left to the step that returns)
Return(color, outcome, f) ==
    /\ stack' = SubSeq(stack, 1, Len(stack) - 1)
    /\ ret' = [some |-> TRUE, color |-> color]
    /\ last' = [outcome |-> outcome, color |-> color, kind |-> f.kind,
                ray |-> f.ray, max_depth |-> f.max_depth, depth |-> f.depth,
                hit |-> f.hit, albedo |-> f.albedo, sr |-> f.sr, acc |-> f.acc,
                lcolors |-> f.lcolors, target |-> f.target,
                nsub |-> f.nsub, nlight |-> f.nlight, made |-> calls - f.entered,
                nest |-> Len(stack)]
    /\ pc' = IF Len(stack) = 1 THEN "done" ELSE pc
    /\ UNCHANGED <<scene, lights, calls, hitVars, renderVars>>

\* call ray_color(ray, scene, lights, max_depth, depth) from the frame f on top
\* (the random source is left to the step that calls)
Call(f, kind, ray, max_depth, depth) ==
    /\ stack' = Append(SetTop(f), Frame(kind, ray, max_depth, depth, calls + 1))
    /\ calls' = calls + 1
    /\ ret' = NoReturn
    /\ UNCHANGED <<scene, lights, last, pc, hitVars, renderVars>>

\* every light ray aimed at the first light
LightRayToFirst(f, i) == Ray(f.hit.point, VSub(lights[1].center, f.hit.point))

\* let light_ray = Ray::new(hit_record.point, light.center - hit_record.point)
LightRay(f, i) == Ray(f.hit.point, VSub(lights[i].center, f.hit.point))

\* depth <= 0: the budget is exhausted
RC_DepthExhausted ==
    /\ Running /\ Top.at = "entry" /\ ~ret.some
    /\ Top.depth <= 0
    /\ Return(BlackColor, "exhausted", Top)
    /\ UNCHANGED rng

\* hit_world found nothing and the scene has no sky
RC_MissNoSky ==
    /\ AtEntry
    /\ ~TopHit.some
    /\ scene.sky.kind = "None"
    /\ Return(BlackColor, "sky_none", Top)
    /\ UNCHANGED rng

\* hit_world found nothing and the sky has no texture
RC_MissGradient ==
    /\ AtEntry
    /\ ~TopHit.some
    /\ scene.sky.kind = "Gradient"
    /\ Return(SkyGradient(Top.ray), "sky_gradient", Top)
    /\ UNCHANGED rng

\* hit_world found nothing and the sky has a texture
RC_MissTexture ==
    /\ AtEntry
    /\ ~TopHit.some
    /\ scene.sky.kind = "Texture"
    /\ ~SkyTexture(Top.ray, scene.sky, scene.build).panic
    /\ Return(SkyTexture(Top.ray, scene.sky, scene.build).color, "sky_texture", Top)
    /\ UNCHANGED rng

\* the sky texture lookup panics: *width - 1 or *height - 1 of a texture of
\* width or height 0 or the index arithmetic overflows (debug build), or the
\* index lies beyond the buffer
RC_MissTexturePanics ==
    /\ AtEntry
    /\ ~TopHit.some
    /\ scene.sky.kind = "Texture"
    /\ SkyTexture(Top.ray, scene.sky, scene.build).panic
    /\ pc' = "panicked"
    /\ UNCHANGED <<scene, lights, stack, ret, last, calls, rng, hitVars, renderVars>>

\* hit_world found the closest hit
RC_Hit ==
    /\ AtEntry
    /\ TopHit.some
    /\ stack' = SetTop([Top EXCEPT !.at = "hit", !.hit = TopHit])
    /\ UNCHANGED <<pc, scene, lights, ret, last, calls, rng, hitVars, renderVars>>

\* a color other than black
AbsorbedAsAlbedo == White

\* the color of an absorbed ray
AbsorbedColor == Black

\* a scatter that panicked (Texture::get_albedo) rather than returned
ScatterPanicked(sc) == ~sc.some /\ "panic" \in DOMAIN sc

\* scatter returned None
RC_Absorbed ==
    /\ Running /\ Top.at = "hit"
    /\ \E rnd \in RndPoints, draw \in Draws :
          /\ ~Scatter(Top.hit.material, Top.ray, Top.hit, rnd, draw, scene.build).some
          /\ ~ScatterPanicked(Scatter(Top.hit.material, Top.ray, Top.hit, rnd, draw, scene.build))
          /\ Return(AbsorbedColor, "absorbed", Top)
    /\ UNCHANGED rng

\* scatter panicked: Texture::get_albedo indexes beyond the buffer or
\* overflows
RC_ScatterPanics ==
    /\ Running /\ Top.at = "hit"
    /\ \E rnd \in RndPoints, draw \in Draws :
          ScatterPanicked(Scatter(Top.hit.material, Top.ray, Top.hit, rnd, draw, scene.build))
    /\ pc' = "panicked"
    /\ UNCHANGED <<scene, lights, stack, ret, last, calls, rng, hitVars, renderVars>>

ScatteredFrame(f, sc) == [f EXCEPT !.at = "gate", !.albedo = sc.attenuation, !.sr = sc.sr]

\* scatter returned Some((scattered_ray, albedo))
RC_Scattered ==
    /\ Running /\ Top.at = "hit"
    /\ \E rnd \in RndPoints, draw \in Draws :
          /\ Scatter(Top.hit.material, Top.ray, Top.hit, rnd, draw, scene.build).some
          /\ stack' = SetTop(ScatteredFrame(Top,
                          Scatter(Top.hit.material, Top.ray, Top.hit, rnd, draw, scene.build)))
    /\ UNCHANGED <<pc, scene, lights, ret, last, calls, rng, hitVars, renderVars>>

\* the light sum added to the albedo of a terminal material
TerminalLit(albedo, light) == CAdd(light, albedo)

\* the color a terminal material's invocation returns: None => albedo
TerminalColor(albedo, light) == albedo

\* the sum of the continuation call's color without the clamp
BouncedUnclamped(albedo, light, target_color) == CAdd(light, CMul(albedo, target_color))

\* the color returned after the continuation call
BouncedColor(albedo, light, target_color) == CClamp(CAdd(light, CMul(albedo, target_color)))

\* a continuation call that keeps the remaining depth
AfterLightsSameDepth(f) ==
    IF f.sr.some
    THEN Call([f EXCEPT !.at = "cont", !.nsub = @ + 1],
              "cont", f.sr.ray, f.max_depth, f.depth)
    ELSE Return(TerminalColor(f.albedo, f.acc), "terminal", f)

\* what follows the light-sampling block: match scattered_ray
AfterLights(f) ==
    IF f.sr.some
    THEN Call([f EXCEPT !.at = "cont", !.nsub = @ + 1],
              "cont", f.sr.ray, f.max_depth, f.depth - 1)
    ELSE Return(TerminalColor(f.albedo, f.acc), "terminal", f)

\* the values rng.gen::<f64>() can return at the gate: 0.0 where the draws
\* that are not 0.0 are used up or no draw is made
GateDraws == IF rng = 0 \/ Len(lights) = 0 THEN {Zero} ELSE Draws
\* the random source after the draw
AfterDraw(gate) == IF gate = Zero THEN rng ELSE rng - 1

\* the gate reaches max_depth - 2 with max_depth < 2 in a debug build:
\* attempt to subtract with overflow
RC_GatePanics ==
    /\ Running /\ Top.at = "gate"
    /\ \E gate \in GateDraws :
          /\ GatePanic(lights, Top.hit.material, gate, Top.max_depth, scene.build)
          /\ rng' = AfterDraw(gate)
    /\ pc' = "panicked"
    /\ UNCHANGED <<scene, lights, stack, ret, last, calls, hitVars, renderVars>>

\* the gate fires: the first light ray is traced
RC_GateFires ==
    /\ Running /\ Top.at = "gate"
    /\ \E gate \in GateDraws :
          /\ ~GatePanic(lights, Top.hit.material, gate, Top.max_depth, scene.build)
          /\ GatePasses(lights, Top.hit.material, gate, Top.max_depth, Top.depth)
          /\ rng' = AfterDraw(gate)
    /\ Call([Top EXCEPT !.at = "lights", !.li = 1, !.nsub = 1, !.nlight = 1],
            "light", LightRay(Top, 1), 2, 1)

\* the gate does not fire
RC_GateClosed ==
    /\ Running /\ Top.at = "gate"
    /\ \E gate \in GateDraws :
          /\ ~GatePanic(lights, Top.hit.material, gate, Top.max_depth, scene.build)
          /\ ~GatePasses(lights, Top.hit.material, gate, Top.max_depth, Top.depth)
          /\ rng' = AfterDraw(gate)
    /\ AfterLights(Top)

\* a light ray's call has returned: accumulate, then the next light
RC_NextLight ==
    /\ Running /\ Top.at = "lights" /\ ret.some
    /\ Top.li < Len(lights)
    /\ Call([Top EXCEPT !.acc = CAdd(@, CMul(Top.albedo, ret.color)),
                        !.lcolors = Append(@, ret.color),
                        !.li = @ + 1, !.nsub = @ + 1, !.nlight = @ + 1],
            "light", LightRay(Top, Top.li + 1), 2, 1)
    /\ UNCHANGED rng

\* the last light ray's call has returned: average, then match scattered_ray
RC_LightsDone ==
    /\ Running /\ Top.at = "lights" /\ ret.some
    /\ Top.li = Len(lights)
    /\ AfterLights([Top EXCEPT !.acc = CDiv(CAdd(@, CMul(Top.albedo, ret.color)),
                                            FromInt(Len(lights))),
                               !.lcolors = Append(@, ret.color)])
    /\ UNCHANGED rng

\* the continuation call has returned
RC_Bounced ==
    /\ Running /\ Top.at = "cont" /\ ret.some
    /\ Return(BouncedColor(Top.albedo, Top.acc, ret.color), "bounced",
              [Top EXCEPT !.target = ret.color])
    /\ UNCHANGED rng

TraceInit ==
    /\ pc = "trace"
    /\ \E input \in TraceInputs :
          /\ scene = input[1]
          /\ stack = <<Frame("top", input[2], input[1].max_depth, input[1].max_depth, 1)>>
    /\ lights = find_lights(scene.objects)
    /\ ret = NoReturn
    /\ last = NoLast
    /\ calls = 1
    /\ rng = MaxGateDraws
    /\ hin = <<>>
    /\ hout = NoHit
    /\ env = NoEnv
    /\ pixels = <<>>
    /\ bands = <<>>
    /\ writers = <<>>
    /\ written = <<>>

TraceNext ==
    \/ RC_DepthExhausted
    \/ RC_MissNoSky
    \/ RC_MissGradient
    \/ RC_MissTexture
    \/ RC_MissTexturePanics
    \/ RC_Hit
    \/ RC_Absorbed
    \/ RC_ScatterPanics
    \/ RC_Scattered
    \/ RC_GatePanics
    \/ RC_GateFires
    \/ RC_GateClosed
    \/ RC_NextLight
    \/ RC_LightsDone
    \/ RC_Bounced

SpecTrace == TraceInit /\ [][TraceNext]_vars

----------------------------------------------------------------------------
(* Sphere::hit on bounded inputs *)

MaxOff == 1
MaxRadius == 3

HitOrigins == {V3(0, y, z) : y \in 0..MaxOff, z \in {-5, 0}}
HitDirections == {V3(0, 0, 1), V3(0, 0, -1), V3(0, 0, 2), V3(0, 1, 2), V3(0, 0, 0)}
HitRadii == {FromInt(s * r) : s \in {-1, 1}, r \in 1..MaxRadius}
HitTMin == {Zero, Q(1, 1000)}
HitTMax == {PosInf, FromInt(5), FromInt(4)}

HitInit ==
    /\ pc = "call"
    /\ hin \in [ray : {Ray(o, d) : o \in HitOrigins, d \in HitDirections},
                 sphere : {Sphere(V3(0, 0, 0), r, Glass(Q(3, 2))) : r \in HitRadii},
                 t_min : HitTMin,
                 t_max : HitTMax]
    /\ hout = NoHit
    /\ scene = NoScene
    /\ lights = <<>>
    /\ stack = <<>>
    /\ ret = NoReturn
    /\ last = NoLast
    /\ calls = 0
    /\ rng = 0
    /\ env = NoEnv
    /\ pixels = <<>>
    /\ bands = <<>>
    /\ writers = <<>>
    /\ written = <<>>

SphereHit ==
    /\ pc = "call"
    /\ hout' = Hit(hin.sphere, hin.ray, hin.t_min, hin.t_max)
    /\ pc' = "ret"
    /\ UNCHANGED <<hin, traceVars, renderVars>>

HitNext == SphereHit

SpecHit == HitInit /\ [][HitNext]_vars

\* the quadratic a*t^2 + 2*half_b*t + c of the call in hin
QuadA == LengthSquared(hin.ray.direction)
QuadHalfB == Dot(VSub(hin.ray.origin, hin.sphere.center), hin.ray.direction)
QuadC ==
    RSub(LengthSquared(VSub(hin.ray.origin, hin.sphere.center)),
         RMul(hin.sphere.radius, hin.sphere.radius))
QuadDisc == RSub(RMul(QuadHalfB, QuadHalfB), RMul(QuadA, QuadC))
SmallRoot == RDiv(RSub(RNeg(QuadHalfB), RSqrt(QuadDisc)), QuadA)
LargeRoot == RDiv(RAdd(RNeg(QuadHalfB), RSqrt(QuadDisc)), QuadA)
HasRoots == RGe(QuadDisc, Zero)
Inside(t) == RLt(hin.t_min, t) /\ RLt(t, hin.t_max)
ExampleCall ==
    /\ hin.ray = Ray(V3(0, 0, -5), V3(0, 0, 1))
    /\ hin.sphere.center = V3(0, 0, 0)
    /\ hin.sphere.radius = One
    /\ hin.t_min = Zero
    /\ hin.t_max = PosInf

\* C6: Sphere.hit returns None when the discriminant is negative or neither
\* root lies strictly inside (t_min, t_max); otherwise the smaller root if it
\* lies strictly inside and else the larger root; the returned t is strictly
\* inside (t_min, t_max), and the ray (0,0,-5)+(0,0,1)t against the unit
\* sphere gives t = 4.
C6_HitNearestValidRoot ==
    pc = "ret" =>
        /\ (~HasRoots \/ (~Inside(SmallRoot) /\ ~Inside(LargeRoot))) => ~hout.some
        /\ (HasRoots /\ Inside(SmallRoot)) => (hout.some /\ hout.t = SmallRoot)
        /\ (HasRoots /\ ~Inside(SmallRoot) /\ Inside(LargeRoot))
               => (hout.some /\ hout.t = LargeRoot)
        /\ hout.some =>
               /\ Inside(hout.t)
               /\ RLe(SmallRoot, LargeRoot)
        /\ ExampleCall => (hout.some /\ hout.t = FromInt(4))

\* C6 witness: the example call has returned, both roots 4 and 6 being valid
C6_Witness ==
    /\ pc = "ret"
    /\ ExampleCall
    /\ hout.some
    /\ Inside(SmallRoot) /\ Inside(LargeRoot) /\ SmallRoot # LargeRoot

\* the geometric normal (point - center) / radius of the returned hit
UnflippedNormal == VDiv(VSub(hout.point, hin.sphere.center), hin.sphere.radius)

\* C7: for every accepted hit, with positive and with negative radius, the
\* returned normal opposes the ray, and front_face is true exactly when the
\* unflipped normal has a strictly negative dot product with the direction.
C7_NormalOpposesRay ==
    (pc = "ret" /\ hout.some) =>
        /\ RLe(Dot(hin.ray.direction, hout.normal), Zero)
        /\ hout.front_face <=> RLt(Dot(hin.ray.direction, UnflippedNormal), Zero)

\* C7 witness: a hit on a sphere of negative radius whose normal was flipped
C7_Witness ==
    /\ pc = "ret"
    /\ hout.some
    /\ RLt(hin.sphere.radius, Zero)
    /\ ~hout.front_face
    /\ hout.normal = VNeg(UnflippedNormal)
    /\ hout.normal # UnflippedNormal

----------------------------------------------------------------------------
(* ray_color: claims *)

\* C1: for every scene, max_depth and outcome of the random draws, the nesting
\* depth of ray_color invocations under a top-level call
\* ray_color(ray, scene, lights, max_depth, max_depth) never exceeds
\* max_depth + 2.
C1_NestingWithinBudget == Len(stack) <= scene.max_depth + 2

\* the blend (1-t)*white + t*(0.5, 0.7, 1.0)
GradientAt(t) ==
    CAdd(CMul(White, <<FSub(One, t), FSub(One, t), FSub(One, t)>>),
         CMul(<<Half, SevenTenths, One>>, <<t, t, t>>))
GradientT(ray) == FMul(Half, FAdd(AsF32(UnitVector(ray.direction)[2]), One))

\* C8: an invocation that hits nothing under a gradient sky returns
\* (1-t)*white + t*(0.5, 0.7, 1.0) with t = 0.5*(unit_direction.y + 1),
\* whatever its remaining depth >= 1 and whatever the lights; for direction
\* (1,0,0) and no objects that is (0.75, 0.85, 1.0).
C8_GradientSky ==
    last.outcome = "sky_gradient" =>
        /\ last.depth >= 1
        /\ last.color = GradientAt(GradientT(last.ray))
        /\ (last.ray.direction = V3(1, 0, 0) /\ scene.objects = <<>>)
               => last.color = <<F(3, 4), F(17, 20), One>>

\* C8 witness: in a scene with a light, a ray traced by a nested invocation
\* has missed every object at remaining depth 1 and returned a sky color that
\* is not white
C8_Witness ==
    /\ last.outcome = "sky_gradient"
    /\ Len(lights) > 0
    /\ last.depth = 1
    /\ last.nest > 1
    /\ last.color = GradientAt(GradientT(last.ray))
    /\ last.color # White

\* C9: an invocation whose scatter returned None returns black and has made
\* no ray_color call: no continuation ray and no light-sampling ray.
C9_AbsorbedIsBlack ==
    last.outcome = "absorbed" =>
        /\ last.color = Black
        /\ last.nsub = 0 /\ last.nlight = 0 /\ last.made = 0

\* C9 witness: a ray was absorbed in a scene that has a light to sample
C9_Witness ==
    /\ last.outcome = "absorbed"
    /\ last.hit.some
    /\ Len(lights) > 0
    /\ last.depth >= 1

\* C10: an invocation that hit a terminal material (an attenuation and no
\* continuing ray, as Light gives with white) returns exactly the attenuation,
\* whatever the light-sampling block added and whatever its remaining depth.
C10_TerminalReturnsAttenuation ==
    /\ last.outcome = "terminal" =>
           /\ last.color = last.albedo
           /\ ~last.sr.some
           /\ last.nsub = last.nlight
    /\ (last.outcome \in {"terminal", "bounced", "absorbed"}
            /\ last.hit.material.kind = "Light")
           => (last.outcome = "terminal" /\ last.color = White)

\* C10 witness: a Light was hit, light sampling ran and summed a color that is
\* not black, and the invocation returned white
C10_Witness ==
    /\ last.outcome = "terminal"
    /\ last.hit.material.kind = "Light"
    /\ last.nlight > 0
    /\ last.acc # Black
    /\ last.color = White

----------------------------------------------------------------------------
(* raytracer.rs: render and render_line.  A band task is one call of
   render_line on one chunk of the buffer; the pool runs at most Workers of
   them at a time, in any order. *)

MaxWidth == 2
MaxHeight == 2
MaxSpp == 3
Workers == 2

\* the values rng.gen::<f64>() returns: draw k of sample s of pixel (x, y)
\* under the seed of the run (k = 0 and 1 are the draws of u and v)
DrawTable == <<Zero, Half, Q(1, 4), Q(19, 20)>>
DrawAt(seed, x, y, s, k) == DrawTable[1 + ((seed + x + 2 * y + 3 * s + k + 2) % 4)]
Seeds == {0, 1}
\* the byte the color conversion gives for NaN depends on the version of the
\* palette crate the build links
NanBytes == {0, 255}
\* the seeds and conversions a scene is rendered under.  A draw is made only
\* where a pixel has a sample.  A NaN is converted only where a pixel has no
\* sample (0.0 * inf) or the image has one column or one row (u or v is a
\* quotient by 0.0): elsewhere the byte for NaN cannot be observed
RenderEnvs(sc) ==
    [seed : IF sc.samples_per_pixel = 0 THEN {0} ELSE Seeds,
     nan_byte : IF sc.samples_per_pixel = 0 \/ sc.width = 1 \/ sc.height = 1
                THEN NanBytes ELSE {0}]

LightC == Sphere(V3(0, 0, -3), Two, Light)
\* images of every size with no sample or one sample per pixel
SingleSampleScenes ==
    {Config(w, h, spp, 2, SkyDefault, FrontCamera, <<>>, "release") :
        w \in 0..MaxWidth, h \in 0..MaxHeight, spp \in 0..1}
    \cup
    {Config(w, h, spp, 1, SkyDefault, FrontCamera, <<LightC>>, build) :
        w \in 0..MaxWidth, h \in 0..MaxHeight, spp \in 0..1,
        build \in Builds}
\* images of two scanlines with several samples per pixel
MultiSampleScenes ==
    {Config(w, 2, spp, 2, SkyDefault, FrontCamera, <<>>, "release") :
        w \in 1..MaxWidth, spp \in 2..MaxSpp}
    \cup
    {Config(w, 2, spp, 1, SkyDefault, FrontCamera, <<LightC>>, "release") :
        w \in 1..MaxWidth, spp \in 2..MaxSpp}
\* an image under a sky texture of width and height 0: every lookup indexes
\* beyond the buffer
PanickingSkyScenes ==
    {Config(2, 2, 1, 2, SkyEmpty, FrontCamera, <<>>, "release")}
\* images of a sphere that scatters the camera rays, with a light above it
BallC(m) == Sphere(V3(0, 0, -3), Two, m)
LightAbove == Sphere(V3(0, 6, -3), One, Light)
BounceScenes ==
    {Config(2, 2, 1, max_depth, SkyDefault, FrontCamera, <<BallC(m), LightAbove>>, build) :
        m \in SceneMaterials, max_depth \in 1..MaxDepth, build \in Builds}
RenderScenes ==
    SingleSampleScenes \cup MultiSampleScenes \cup PanickingSkyScenes \cup BounceScenes

\* ray_color as a function of its arguments and of the values the thread's
\* random source returns.  rs = <<seed, x, y, s>> names the sample; the
\* invocations of ray_color of a sample are numbered 1, 2, .. in the order in
\* which they are entered, and invocation c is given RndOf(rs, c) by
\* random_in_unit_sphere(), GlassDrawOf(rs, c) by rng.gen() in Glass::scatter
\* and GateDrawOf(rs, c) by rng.gen() at the gate.  An outcome tells whether the
\* call panicked, the color it returned and how many invocations it made,
\* itself included.
RndTable == <<<<Zero, Half, Zero>>, <<Half, Zero, Zero>>>>
RndOf(rs, c) == RndTable[1 + ((rs[1] + rs[2] + rs[3] + rs[4] + c) % 2)]
GlassDrawOf(rs, c) == DrawAt(rs[1], rs[2], rs[3], rs[4], 2 + c)
GateDrawOf(rs, c) == DrawAt(rs[1], rs[2], rs[3], rs[4], 1 + c)

RayOutcome(panic, color, made) == [panic |-> panic, color |-> color, made |-> made]
RayPanicked == RayOutcome(TRUE, Black, 1)

\* the outcome of the sky texture lookup
SkyLookup(texel) ==
    IF texel.panic THEN RayPanicked ELSE RayOutcome(FALSE, texel.color, 1)

\* the miss branch of ray_color
SkyColor(ray, sky, build) ==
    CASE sky.kind = "None" -> RayOutcome(FALSE, BlackColor, 1)
      [] sky.kind = "Gradient" -> RayOutcome(FALSE, SkyGradient(ray), 1)
      [] sky.kind = "Texture" -> SkyLookup(SkyTexture(ray, sky, build))

\* light_red += albedo.red * target_color.red, .. for one light ray; light
\* holds the sum and the invocations made so far
LightAdded(light, albedo, target) ==
    RayOutcome(target.panic, CAdd(light.color, CMul(albedo, target.color)),
               light.made + target.made)
\* light_red /= lights.len() as f32, ..
LightAveraged(light, n) ==
    IF light.panic THEN light
    ELSE RayOutcome(FALSE, CDiv(light.color, FromInt(n)), light.made)
\* return Srgb::new(clamp(light_red + albedo.red * target_color.red), ..)
BouncedOutcome(albedo, light, target) ==
    RayOutcome(target.panic, BouncedColor(albedo, light.color, target.color),
               light.made + target.made)

RECURSIVE ray_color(_, _, _, _, _, _, _)
RECURSIVE RayColorLights(_, _, _, _, _, _, _, _)

\* match scattered_ray: the continuation call, or None => albedo
RayColorBounce(sc, lts, rs, args, c, scattered, light) ==
    IF light.panic THEN RayPanicked
    ELSE IF scattered.sr.some
    THEN BouncedOutcome(scattered.attenuation, light,
             ray_color(scattered.sr.ray, sc, lts, args[1], args[2] - 1, rs,
                       c + light.made))
    ELSE RayOutcome(FALSE, TerminalColor(scattered.attenuation, light.color),
                    light.made)

\* match scattered: the gate and the light-sampling block, then the bounce
RayColorScattered(sc, lts, rs, args, c, hit, scattered) ==
    IF ScatterPanicked(scattered) THEN RayPanicked
    ELSE IF ~scattered.some THEN RayOutcome(FALSE, AbsorbedColor, 1)
    ELSE IF GatePanic(lts, hit.material, GateDrawOf(rs, c), args[1], sc.build)
    THEN RayPanicked
    ELSE RayColorBounce(sc, lts, rs, args, c, scattered,
             IF GatePasses(lts, hit.material, GateDrawOf(rs, c), args[1], args[2])
             THEN LightAveraged(
                      RayColorLights(sc, lts, rs, c, hit.point,
                                     scattered.attenuation, 1,
                                     RayOutcome(FALSE, Black, 1)),
                      Len(lts))
             ELSE RayOutcome(FALSE, Black, 1))

\* match hit
RayColorHit(ray, sc, lts, rs, args, c, hit) ==
    IF ~hit.some THEN SkyColor(ray, sc.sky, sc.build)
    ELSE RayColorScattered(sc, lts, rs, args, c, hit,
             Scatter(hit.material, ray, hit, RndOf(rs, c), GlassDrawOf(rs, c),
                     sc.build))

\* for light in lights: the light rays from the i-th light on
RayColorLights(sc, lts, rs, c, point, albedo, i, light) ==
    IF light.panic \/ i > Len(lts) THEN light
    ELSE RayColorLights(sc, lts, rs, c, point, albedo, i + 1,
             LightAdded(light, albedo,
                 ray_color(Ray(point, VSub(lts[i].center, point)), sc, lts, 2, 1,
                           rs, c + light.made)))

\* ray_color(ray, scene, lights, max_depth, depth), entered as invocation c
ray_color(ray, sc, lts, max_depth, depth, rs, c) ==
    IF depth <= 0 THEN RayOutcome(FALSE, BlackColor, 1)
    ELSE RayColorHit(ray, sc, lts, rs, <<max_depth, depth>>, c,
                     hit_world(sc.objects, ray, T_MIN, F64_MAX))

\* a top-level call that starts one bounce short
SampleArgsShort(sc) == <<sc.max_depth, sc.max_depth - 1>>
\* render_line: the (max_depth, depth) arguments of the top-level call
SampleArgs(sc) == <<sc.max_depth, sc.max_depth>>

\* render_line: u and v of a sample
SampleU(x, width, draw) == RDiv(RAdd(FromInt(x), draw), RSub(FromInt(width), One))
SampleV(y, height, draw) ==
    RDiv(RSub(FromInt(height), RAdd(FromInt(y), draw)), RSub(FromInt(height), One))

\* render_line: sample s of pixel (x, y)
SampleOutcome(sc, lts, e, x, y, s) ==
    ray_color(get_ray(sc.camera,
                      SampleU(x, sc.width, DrawAt(e.seed, x, y, s, 0)),
                      SampleV(y, sc.height, DrawAt(e.seed, x, y, s, 1))),
              sc, lts, SampleArgs(sc)[1], SampleArgs(sc)[2], <<e.seed, x, y, s>>, 1)

\* color.into_format(): a channel as u8, rounded to nearest
ToU8(value, nan_byte) ==
    IF IsNaN(value) THEN nan_byte
    ELSE Trunc(FAdd(FMul(clamp(value), FromInt(255)), Half))

\* a channel that is the square root of the sum, without the scale
PixelChannelUnscaled(total, spp) == FSqrt(total)
\* (scale * pixel_colors[k]).sqrt() with
\* scale = 1.0 / scene.samples_per_pixel as f32
PixelChannel(total, spp) == FSqrt(FMul(FDiv(One, AsF32(FromInt(spp))), total))
PixelBytes(sum, spp, nan_byte) ==
    <<ToU8(PixelChannel(sum[1], spp), nan_byte),
      ToU8(PixelChannel(sum[2], spp), nan_byte),
      ToU8(PixelChannel(sum[3], spp), nan_byte)>>

\* vec![0; image_width * image_height * 3]
BufferLen(width, height) == width * height * 3

\* chunks_mut(size).enumerate(): chunk i is bytes [start, start + len)
ChunkCount(len, size) == (len + size - 1) \div size
\* chunks that start every third of a chunk size, overlapping
ChunkStartOverlapping(i, size) == i * (size \div 3)
ChunkStart(i, size) == i * size
ChunkLen(i, size, len) ==
    IF len - ChunkStart(i, size) < size THEN len - ChunkStart(i, size) ELSE size

\* a band task: its index i (the y of render_line), its chunk, its position
\* (x, s), the locals of render_line, the number of samples it has taken, the
\* arguments of the ray_color calls of the pixel it is at (args) and, for each
\* pixel it has stored, those arguments and the sums it converted (stored)
Band(i, start, len) ==
    [i |-> i, start |-> start, len |-> len, pc |-> "queued",
     x |-> 0, s |-> 0, sum |-> Black, nsamples |-> 0,
     args |-> <<>>, stored |-> <<>>]

\* the index of pixel x without the three bytes per pixel
PixelOffsetUnscaled(x) == x
\* pixels[x * 3]
PixelOffset(x) == x * 3

\* a store that also clears every byte behind the pixel
WriteBytesClearing(buf, at, bytes) ==
    [k \in 1..Len(buf) |->
        IF k - 1 \in at..(at + 2) THEN bytes[k - at]
        ELSE IF k - 1 > at + 2 THEN 0 ELSE buf[k]]
\* buf with bytes written at the 0-based indices at, at + 1, at + 2
WriteBytes(buf, at, bytes) ==
    [k \in 1..Len(buf) |-> IF k - 1 \in at..(at + 2) THEN bytes[k - at] ELSE buf[k]]
LogWriter(log, at, i) ==
    [k \in 1..Len(log) |-> IF k - 1 \in at..(at + 2) THEN Append(log[k], i) ELSE log[k]]

BandsRunning == {b \in DOMAIN bands : bands[b].pc = "running"}

\* a for_each that returns as soon as every task has been taken by a worker
ForEachDetached(bs) == \A b \in DOMAIN bs : bs[b].pc # "queued"
\* into_par_iter().for_each returns when every task has finished; once a task
\* has panicked the tasks not yet started may be dropped
ForEachReturns(bs) ==
    \/ \A b \in DOMAIN bs : bs[b].pc = "done"
    \/ /\ \E b \in DOMAIN bs : bs[b].pc = "panicked"
       /\ \A b \in DOMAIN bs : bs[b].pc # "running"

\* a join that drops the panic of a task
JoinSwallowsPanic(bs) == "joined"
\* the parallel loop resumes the panic of a task in its caller
JoinOutcome(bs) ==
    IF \E b \in DOMAIN bs : bs[b].pc = "panicked" THEN "panicked" ELSE "joined"

RenderInit ==
    /\ pc = "render"
    /\ scene \in RenderScenes
    /\ env \in RenderEnvs(scene)
    /\ lights = <<>>
    /\ pixels = <<>>
    /\ bands = <<>>
    /\ writers = <<>>
    /\ written = <<>>
    /\ stack = <<>>
    /\ ret = NoReturn
    /\ last = NoLast
    /\ calls = 0
    /\ rng = 0
    /\ hin = <<>>
    /\ hout = NoHit

\* render up to the parallel loop
R_Setup ==
    /\ pc = "render"
    /\ scene.width * 3 # 0
    /\ pixels' = [k \in 1..BufferLen(scene.width, scene.height) |-> 0]
    /\ writers' = [k \in 1..BufferLen(scene.width, scene.height) |-> <<>>]
    /\ bands' =
          [b \in 1..ChunkCount(BufferLen(scene.width, scene.height), scene.width * 3) |->
              Band(b - 1,
                   ChunkStart(b - 1, scene.width * 3),
                   ChunkLen(b - 1, scene.width * 3,
                            BufferLen(scene.width, scene.height)))]
    /\ lights' = find_lights(scene.objects)
    /\ pc' = "par"
    /\ UNCHANGED <<scene, env, written, stack, ret, last, calls, rng, hitVars>>

\* chunks_mut(0) panics: chunk size must be non-zero
R_SetupPanics ==
    /\ pc = "render"
    /\ scene.width * 3 = 0
    /\ pixels' = [k \in 1..BufferLen(scene.width, scene.height) |-> 0]
    /\ pc' = "panicked"
    /\ UNCHANGED <<scene, env, lights, bands, writers, written,
                   stack, ret, last, calls, rng, hitVars>>

\* a worker takes band b
R_BandStart(b) ==
    /\ pc = "par"
    /\ bands[b].pc = "queued"
    /\ Cardinality(BandsRunning) < Workers
    /\ bands' = [bands EXCEPT ![b].pc = "running"]
    /\ UNCHANGED <<pc, scene, env, lights, pixels, writers, written,
                   stack, ret, last, calls, rng, hitVars>>

\* a loop over x that stops one pixel short of the line
LineWidthShort(sc) == sc.width - 1
\* render_line: for x in 0..bounds.0
LineWidth(sc) == sc.width

AtSample(b) ==
    /\ pc = "par"
    /\ bands[b].pc = "running"
    /\ bands[b].x < LineWidth(scene)
    /\ bands[b].s < scene.samples_per_pixel

BandSample(b) == SampleOutcome(scene, lights, env, bands[b].x, bands[b].i, bands[b].s)

\* a sample loop whose worker takes the first light out of the shared list
R_SampleTakesLight(b) ==
    /\ AtSample(b)
    /\ ~BandSample(b).panic
    /\ bands' = [bands EXCEPT ![b].sum = CAdd(@, BandSample(b).color),
                              ![b].s = @ + 1,
                              ![b].nsamples = @ + 1,
                              ![b].args = Append(@, SampleArgs(scene))]
    /\ lights' = IF lights = <<>> THEN lights ELSE Tail(lights)
    /\ UNCHANGED <<pc, scene, env, pixels, writers, written,
                   stack, ret, last, calls, rng, hitVars>>

\* one iteration of the sample loop, c the outcome of its ray_color call
R_Sample(b) ==
    /\ AtSample(b)
    /\ \E c \in {BandSample(b)} :
          /\ ~c.panic
          /\ bands' = [bands EXCEPT ![b].sum = CAdd(@, c.color),
                                    ![b].s = @ + 1,
                                    ![b].nsamples = @ + 1,
                                    ![b].args = Append(@, SampleArgs(scene))]
    /\ UNCHANGED <<pc, scene, env, lights, pixels, writers, written,
                   stack, ret, last, calls, rng, hitVars>>

\* ray_color panics inside the sample loop
R_SamplePanics(b) ==
    /\ AtSample(b)
    /\ BandSample(b).panic
    /\ bands' = [bands EXCEPT ![b].pc = "panicked", ![b].nsamples = @ + 1]
    /\ UNCHANGED <<pc, scene, env, lights, pixels, writers, written,
                   stack, ret, last, calls, rng, hitVars>>

\* the end of one iteration of the loop over x: the pixel is stored
R_WritePixel(b) ==
    /\ pc = "par"
    /\ bands[b].pc = "running"
    /\ bands[b].x < LineWidth(scene)
    /\ bands[b].s = scene.samples_per_pixel
    /\ pixels' = WriteBytes(pixels, bands[b].start + PixelOffset(bands[b].x),
                            PixelBytes(bands[b].sum, scene.samples_per_pixel,
                                       env.nan_byte))
    /\ writers' = LogWriter(writers, bands[b].start + PixelOffset(bands[b].x),
                            bands[b].i)
    /\ bands' = [bands EXCEPT ![b].x = @ + 1, ![b].s = 0, ![b].sum = Black,
                              ![b].args = <<>>,
                              ![b].stored = Append(@, [args |-> bands[b].args,
                                                       sum |-> bands[b].sum])]
    /\ UNCHANGED <<pc, scene, env, lights, written,
                   stack, ret, last, calls, rng, hitVars>>

\* render_line returns
R_BandDone(b) ==
    /\ pc = "par"
    /\ bands[b].pc = "running"
    /\ bands[b].x = LineWidth(scene)
    /\ bands' = [bands EXCEPT ![b].pc = "done"]
    /\ UNCHANGED <<pc, scene, env, lights, pixels, writers, written,
                   stack, ret, last, calls, rng, hitVars>>

\* the parallel loop returns, or unwinds into render's caller
R_Join ==
    /\ pc = "par"
    /\ ForEachReturns(bands)
    /\ pc' = JoinOutcome(bands)
    /\ UNCHANGED <<scene, env, lights, pixels, bands, writers, written,
                   stack, ret, last, calls, rng, hitVars>>

\* write_image returns Ok
R_WriteImage ==
    /\ pc = "joined"
    /\ written' = Append(written, [pixels |-> pixels,
                                   bounds |-> <<scene.width, scene.height>>])
    /\ pc' = "written"
    /\ UNCHANGED <<scene, env, lights, pixels, bands, writers,
                   stack, ret, last, calls, rng, hitVars>>

\* write_image returns Err: expect("error writing image") panics
R_WriteImageFails ==
    /\ pc = "joined"
    /\ written' = Append(written, [pixels |-> pixels,
                                   bounds |-> <<scene.width, scene.height>>])
    /\ pc' = "panicked"
    /\ UNCHANGED <<scene, env, lights, pixels, bands, writers,
                   stack, ret, last, calls, rng, hitVars>>

RenderNext ==
    \/ R_Setup
    \/ R_SetupPanics
    \/ \E b \in DOMAIN bands : R_BandStart(b)
    \/ \E b \in DOMAIN bands : R_Sample(b)
    \/ \E b \in DOMAIN bands : R_SamplePanics(b)
    \/ \E b \in DOMAIN bands : R_WritePixel(b)
    \/ \E b \in DOMAIN bands : R_BandDone(b)
    \/ R_Join
    \/ R_WriteImage
    \/ R_WriteImageFails

SpecRender == RenderInit /\ [][RenderNext]_vars

----------------------------------------------------------------------------
(* render: claims *)

RECURSIVE SumOfSamples(_, _, _)
SumOfSamples(x, y, n) ==
    IF n = 0 THEN Black
    ELSE CAdd(SumOfSamples(x, y, n - 1),
              SampleOutcome(scene, lights, env, x, y, n - 1).color)
\* the three bytes of pixel (x, y)
ExpectedPixel(x, y) ==
    PixelBytes(SumOfSamples(x, y, scene.samples_per_pixel),
               scene.samples_per_pixel, env.nan_byte)

\* C2: the buffer render hands to write_image has length width*height*3 and
\* holds pixel (x, y), row y counted from the top scanline, as its three bytes
\* at offset (y*width + x)*3; a 100 by 100 image has 30,000 bytes.
C2_BufferLayout ==
    /\ pc = "written" =>
          /\ Len(written[1].pixels) = scene.width * scene.height * 3
          /\ written[1].bounds = <<scene.width, scene.height>>
          /\ \A y \in 0..(scene.height - 1), x \in 0..(scene.width - 1), k \in 0..2 :
                written[1].pixels[(y * scene.width + x) * 3 + k + 1]
                    = ExpectedPixel(x, y)[k + 1]
          /\ \A y \in 0..(scene.height - 1), z \in 0..(scene.height - 1) :
                \A d \in 1..Len(DrawTable), e \in 1..Len(DrawTable) :
                    (y < z) => RGt(SampleV(y, scene.height, DrawTable[d]),
                                   SampleV(z, scene.height, DrawTable[e]))
    /\ BufferLen(100, 100) = 30000

\* C2 witness: a 2 by 2 image was written whose four pixels are not all equal
C2_Witness ==
    /\ pc = "written"
    /\ scene.width = 2 /\ scene.height = 2
    /\ Len(written[1].pixels) = 12
    /\ ExpectedPixel(0, 0) # ExpectedPixel(1, 0)
    /\ ExpectedPixel(0, 0) # ExpectedPixel(0, 1)

\* C3: under every interleaving no byte is written by two different bands:
\* band y writes only bytes [y*width*3, (y+1)*width*3).
C3_DisjointBands ==
    \A k \in DOMAIN writers :
        \A j \in DOMAIN writers[k] :
            /\ writers[k][j] * scene.width * 3 <= k - 1
            /\ k - 1 < (writers[k][j] + 1) * scene.width * 3
            /\ writers[k][j] = writers[k][1]

\* C3 witness: two bands run at the same time and each has stored a pixel
C3_Witness ==
    /\ pc = "par"
    /\ Len(bands) = 2
    /\ bands[1].pc = "running" /\ bands[2].pc = "running"
    /\ bands[1].x = 1 /\ bands[2].x = 1
    /\ writers[1] = <<0>>
    /\ writers[scene.width * 3 + 1] = <<1>>

\* C4: write_image is invoked at most once, exactly once in a render that
\* completes, and only when every band task is done, with the buffer as the
\* bands left it.
C4_JoinBeforeWrite ==
    /\ Len(written) <= 1
    /\ pc = "written" => Len(written) = 1
    /\ Len(written) = 1 =>
          /\ \A b \in DOMAIN bands : bands[b].pc = "done"
          /\ written[1].pixels = pixels

\* C4 witness: the image was written after two bands were done
C4_Witness ==
    /\ pc = "written"
    /\ Len(written) = 1
    /\ Len(bands) = 2
    /\ bands[1].pc = "done" /\ bands[2].pc = "done"
    /\ bands[1].nsamples > 0

\* C5: once a band task has panicked write_image is never invoked and the
\* render ends in the panic, not in a written image.
C5_PanicAborts ==
    (\E b \in DOMAIN bands : bands[b].pc = "panicked") =>
        /\ written = <<>>
        /\ pc \in {"par", "panicked"}

\* C5 witness: render has panicked with one band done, its pixels in the
\* buffer, and another band panicked
C5_Witness ==
    /\ pc = "panicked"
    /\ \E b \in DOMAIN bands : bands[b].pc = "panicked"
    /\ \E b \in DOMAIN bands : bands[b].pc = "done" /\ bands[b].x > 0
    /\ written = <<>>

----------------------------------------------------------------------------
(* Material::scatter on bounded inputs: a sphere of each material is hit by a
   ray and scatter is applied to the hit record *)

MaxFuzz == 2

Gold == <<F(4, 5), F(3, 5), F(1, 5)>>
ScatterMaterials ==
    {Metal(albedo, FromInt(fuzz)) : albedo \in {Grey, Gold}, fuzz \in 0..MaxFuzz}
        \cup {Lambertian(Grey), Glass(Q(3, 2)), Light,
              Texture(White, TexBytes(2, 2), 2, 2, Q(1, 4))}
ScatterRays ==
    {Ray(V3(0, 0, -5), V3(0, 0, 1)),
     Ray(V3(0, 1, -5), V3(0, 0, 1)),
     Ray(V3(0, 0, -5), V3(0, 1, 5)),
     Ray(V3(0, 0, 0), V3(0, 0, 1)),
     Ray(<<Zero, Half, Zero>>, V3(0, 0, 1)),
     Ray(<<Zero, Q(4, 5), Zero>>, V3(0, 0, 1))}
\* points of the open unit ball
ScatterRnd ==
    {<<Zero, Zero, Zero>>, <<Zero, Half, Zero>>,
     <<Zero, Zero, Q(9, 10)>>, <<Zero, Zero, Q(-9, 10)>>}

ScatterCall(m, ray, hit_record, rnd, draw, build) ==
    [m |-> m, ray |-> ray, hit_record |-> hit_record, rnd |-> rnd, draw |-> draw,
     build |-> build]

ScatterInit ==
    /\ pc = "scatter"
    /\ \E m \in ScatterMaterials, ray \in ScatterRays, rnd \in ScatterRnd, draw \in Draws,
          build \in Builds :
          /\ Hit(SphereA(m), ray, T_MIN, F64_MAX).some
          /\ hin = ScatterCall(m, ray, Hit(SphereA(m), ray, T_MIN, F64_MAX), rnd, draw,
                              build)
    /\ hout = Absorbed
    /\ scene = NoScene
    /\ lights = <<>>
    /\ stack = <<>>
    /\ ret = NoReturn
    /\ last = NoLast
    /\ calls = 0
    /\ rng = 0
    /\ env = NoEnv
    /\ pixels = <<>>
    /\ bands = <<>>
    /\ writers = <<>>
    /\ written = <<>>

\* hit_record.material.scatter(ray, &hit_record)
MaterialScatter ==
    /\ pc = "scatter"
    /\ hout' = Scatter(hin.m, hin.ray, hin.hit_record, hin.rnd, hin.draw, hin.build)
    /\ pc' = "scattered"
    /\ UNCHANGED <<hin, traceVars, renderVars>>

ScatterNext == MaterialScatter

SpecScatter == ScatterInit /\ [][ScatterNext]_vars

\* the mirror image of the incoming direction about the normal
MirrorDirection ==
    VSub(hin.ray.direction,
         VScale(hin.hit_record.normal,
                RMul(Two, Dot(hin.ray.direction, hin.hit_record.normal))))
\* the mirror direction perturbed by fuzz times the random point
PerturbedReflection == VAdd(MirrorDirection, VScale(hin.rnd, hin.m.fuzz))

\* C11: Metal scatter returns None whenever the fuzz-perturbed reflected
\* direction has dot(scattered, normal) <= 0; a ray it returns starts at the
\* hit point, has that direction with a strictly positive dot product with
\* the normal, and comes with the albedo as attenuation.
C11_MetalRejectsInward ==
    (pc = "scattered" /\ hin.m.kind = "Metal") =>
        /\ RLe(Dot(PerturbedReflection, hin.hit_record.normal), Zero) => ~hout.some
        /\ hout.some =>
              /\ hout.sr.some
              /\ hout.sr.ray = Ray(hin.hit_record.point, PerturbedReflection)
              /\ RGt(Dot(hout.sr.ray.direction, hin.hit_record.normal), Zero)
              /\ hout.attenuation = hin.m.albedo

\* C11 witness: the mirror direction leaves the surface, the fuzz turns it
\* into the surface, and scatter returned None
C11_Witness ==
    /\ pc = "scattered"
    /\ hin.m.kind = "Metal"
    /\ RGt(hin.m.fuzz, Zero)
    /\ RGt(Dot(MirrorDirection, hin.hit_record.normal), Zero)
    /\ RLt(Dot(PerturbedReflection, hin.hit_record.normal), Zero)
    /\ ~hout.some

----------------------------------------------------------------------------
(* find_lights and hit_world on bounded object lists; hit_world's loop runs
   one sphere at a time over (closest_so_far, hit_record) *)

MaxWorld == 3

WorldSpheres ==
    {Sphere(V3(0, 0, 0), One, Lambertian(Grey)),
     Sphere(V3(0, 0, 3), One, Light),
     Sphere(V3(0, 0, -2), One, Light),
     Sphere(V3(0, 0, 0), FromInt(3), Metal(Grey, Zero)),
     Sphere(V3(0, 5, 0), One, Light)}
Worlds == UNION {[1..n -> WorldSpheres] : n \in 0..MaxWorld}
WorldRays == {Ray(V3(0, 0, -5), V3(0, 0, 1)), Ray(V3(0, 0, 0), V3(0, 0, 1))}
WorldTMax == {F64_MAX, FromInt(5)}

\* hit_world's locals after scanned spheres of the list
Scan(scanned, acc) == [i |-> scanned, acc |-> acc]

WorldInit ==
    /\ pc = "world"
    /\ hin \in [world : Worlds, r : WorldRays, t_min : {T_MIN}, t_max : WorldTMax]
    /\ hout = Scan(0, [closest_so_far |-> hin.t_max, hit_record |-> NoHit])
    /\ scene = NoScene
    /\ lights = <<>>
    /\ stack = <<>>
    /\ ret = NoReturn
    /\ last = NoLast
    /\ calls = 0
    /\ rng = 0
    /\ env = NoEnv
    /\ pixels = <<>>
    /\ bands = <<>>
    /\ writers = <<>>
    /\ written = <<>>

\* let lights = find_lights(&scene.objects)
W_FindLights ==
    /\ pc = "world"
    /\ lights' = find_lights(hin.world)
    /\ pc' = "scan"
    /\ UNCHANGED <<hin, hout, scene, stack, ret, last, calls, rng, renderVars>>

\* hit_world: one iteration of the loop
HW_Step ==
    /\ pc = "scan"
    /\ hout.i < Len(hin.world)
    /\ hout' = Scan(hout.i + 1,
                    HitWorldStep(hout.acc, hin.world[hout.i + 1], hin.r, hin.t_min))
    /\ UNCHANGED <<pc, hin, traceVars, renderVars>>

\* hit_world: the loop is over and hit_record is returned
HW_Return ==
    /\ pc = "scan"
    /\ hout.i = Len(hin.world)
    /\ pc' = "hw_ret"
    /\ UNCHANGED <<hin, hout, traceVars, renderVars>>

WorldNext ==
    \/ W_FindLights
    \/ HW_Step
    \/ HW_Return

SpecWorld == WorldInit /\ [][WorldNext]_vars

\* the positions of the emissive spheres in the list
LightIndexes == {i \in DOMAIN hin.world : hin.world[i].material.kind = "Light"}
\* the position of the k-th emissive sphere
KthLight(k) ==
    CHOOSE i \in LightIndexes : Cardinality({j \in LightIndexes : j < i}) = k - 1

\* C12: find_lights returns exactly the spheres of the scene whose material
\* is Light, each once and in scene order, and no other sphere; the list is
\* empty if and only if the scene has no emissive sphere.
C12_FindLightsExact ==
    pc # "world" =>
        /\ Len(lights) = Cardinality(LightIndexes)
        /\ \A k \in DOMAIN lights : lights[k] = hin.world[KthLight(k)]
        /\ \A k \in DOMAIN lights : lights[k].material.kind = "Light"
        /\ (lights = <<>>) <=> (\A i \in DOMAIN hin.world : hin.world[i].material.kind # "Light")

\* C12 witness: two different lights with another sphere between them
C12_Witness ==
    /\ pc # "world"
    /\ Len(hin.world) = 3
    /\ hin.world[1].material.kind = "Light"
    /\ hin.world[2].material.kind # "Light"
    /\ hin.world[3].material.kind = "Light"
    /\ hin.world[1] # hin.world[3]
    /\ lights = <<hin.world[1], hin.world[3]>>

\* what Sphere::hit accepts for sphere i over the whole interval (t_min, t_max)
AcceptedHit(i) == Hit(hin.world[i], hin.r, hin.t_min, hin.t_max)

ScanState ==
    pc \in {"scan", "hw_ret"} =>
        /\ hout.i = 0 => hout.acc.closest_so_far = hin.t_max
        /\ RLe(hout.acc.closest_so_far, hin.t_max)
        /\ hout.acc.hit_record.some => hout.acc.closest_so_far = hout.acc.hit_record.t
        /\ ~hout.acc.hit_record.some => hout.acc.closest_so_far = hin.t_max

ScanResult ==
    pc = "hw_ret" =>
        /\ hout.acc.hit_record = hit_world(hin.world, hin.r, hin.t_min, hin.t_max)
        /\ ~hout.acc.hit_record.some <=> (\A i \in DOMAIN hin.world : ~AcceptedHit(i).some)
        /\ hout.acc.hit_record.some =>
              /\ \E i \in DOMAIN hin.world : hout.acc.hit_record = AcceptedHit(i)
              /\ \A i \in DOMAIN hin.world :
                    AcceptedHit(i).some => RLe(hout.acc.hit_record.t, AcceptedHit(i).t)

ScanShrinks == RLe(hout'.acc.closest_so_far, hout.acc.closest_so_far)

\* C15: hit_world returns None iff no sphere has a root strictly inside
\* (t_min, t_max), and otherwise a hit whose t is at most the accepted t of
\* every sphere of the list; while scanning, closest_so_far starts at t_max,
\* never increases, and equals the t of the recorded hit once one exists.
C15_ClosestHit == [](ScanState /\ ScanResult) /\ [][ScanShrinks]_vars

\* C15 witness: three spheres are hit in the order far, near, middle and the
\* near one is returned
C15_Witness ==
    /\ pc = "hw_ret"
    /\ Len(hin.world) = 3
    /\ \A i \in 1..3 : AcceptedHit(i).some
    /\ RLt(AcceptedHit(2).t, AcceptedHit(3).t)
    /\ RLt(AcceptedHit(3).t, AcceptedHit(1).t)
    /\ hout.acc.hit_record = AcceptedHit(2)

----------------------------------------------------------------------------
(* render: the scene and the lights are read-only *)

\* the emissive spheres of a list, in order
IsLight(sphere) == sphere.material.kind = "Light"
EmissiveOf(world) == SelectSeq(world, IsLight)

LightsDerived ==
    pc \in {"par", "joined", "written"} => lights = EmissiveOf(scene.objects)
SceneKept == scene' = scene /\ (pc # "render" => lights' = lights)

\* C13: during a render the scene (width, height, samples_per_pixel,
\* max_depth, sky, camera, objects and their materials) is never modified, and
\* the lights list, once derived from it before the parallel loop, is never
\* modified either: every band reads the same scene and lights.
C13_SceneReadOnly == []LightsDerived /\ [][SceneKept]_vars

\* C13 witness: two bands of a scene with a light have both taken samples
C13_Witness ==
    /\ pc = "par"
    /\ lights # <<>>
    /\ Len(bands) = 2
    /\ bands[1].nsamples > 0 /\ bands[2].nsamples > 0

----------------------------------------------------------------------------
(* ray_color: the exhausted budget and the missing sky *)

\* C14: ray_color called with remaining depth 0 returns black for every ray,
\* scene and lights list, having made no intersection test, no scatter and no
\* ray_color call: an invocation with depth 0 never leaves its entry.
C14_DepthZeroIsBlack ==
    /\ \A k \in DOMAIN stack :
          stack[k].depth = 0 =>
              /\ stack[k].at = "entry"
              /\ ~stack[k].hit.some
              /\ stack[k].nsub = 0
    /\ (last.outcome # "none" /\ last.depth = 0) =>
          /\ last.outcome = "exhausted"
          /\ last.color = Black
          /\ ~last.hit.some
          /\ last.nsub = 0 /\ last.made = 0
    /\ last.outcome = "exhausted" => last.depth = 0

\* C14 witness: a continuation ray that would have hit an object of a scene
\* with a light returned black at depth 0
C14_Witness ==
    /\ last.outcome = "exhausted"
    /\ last.kind = "cont"
    /\ last.depth = 0
    /\ Len(lights) > 0
    /\ hit_world(scene.objects, last.ray, T_MIN, F64_MAX).some
    /\ last.color = Black

\* C20: an invocation with remaining depth >= 1 whose ray hits nothing in a
\* scene without a sky returns black, whatever the direction of the ray.
C20_NoSkyIsBlack ==
    /\ last.outcome = "sky_none" =>
          /\ last.color = Black
          /\ last.depth >= 1
          /\ scene.sky.kind = "None"
    /\ (/\ last.outcome # "none"
        /\ last.depth >= 1
        /\ scene.sky.kind = "None"
        /\ ~hit_world(scene.objects, last.ray, T_MIN, F64_MAX).some)
           => (last.outcome = "sky_none" /\ last.color = Black /\ last.made = 0)

\* C20 witness: a continuation ray left the sphere and missed everything in a
\* scene without a sky
C20_Witness ==
    /\ last.outcome = "sky_none"
    /\ last.kind = "cont"
    /\ last.depth = 1
    /\ scene.objects # <<>>
    /\ last.color = Black

----------------------------------------------------------------------------
(* ray_color: the continuation ray *)

\* a value limited to [0, 1]: 0 below 0, 1 above 1, and the value itself
\* otherwise (NaN, which is neither below 0 nor above 1, included)
Clamp01(x) == IF RLt(x, Zero) THEN Zero ELSE IF RGt(x, One) THEN One ELSE x
Unclamped(f, k) == FAdd(f.acc[k], FMul(f.albedo[k], f.target[k]))

\* C16: an invocation whose material produced a continuing ray makes exactly
\* one continuation call, for that ray, with remaining depth - 1 and the same
\* max_depth, and returns per channel
\* clamp(light_contribution + attenuation * recursive_result), which lies in
\* [0, 1] wherever that sum is a number.
C16_ContinuationOnce ==
    /\ last.outcome = "bounced" =>
          /\ last.sr.some
          /\ last.nsub - last.nlight = 1
          /\ \A k \in 1..3 :
                /\ last.color[k] = Clamp01(Unclamped(last, k))
                /\ IsNaN(Unclamped(last, k))
                       \/ (RLe(Zero, last.color[k]) /\ RLe(last.color[k], One))
    /\ (last.outcome \in {"bounced", "terminal"} /\ last.sr.some)
           => last.outcome = "bounced"
    /\ \A k \in DOMAIN stack :
          (stack[k].at = "cont" /\ k < Len(stack)) =>
              /\ stack[k + 1].kind = "cont"
              /\ stack[k + 1].ray = stack[k].sr.ray
              /\ stack[k + 1].depth = stack[k].depth - 1
              /\ stack[k + 1].max_depth = stack[k].max_depth
    /\ (Running /\ Top.at = "cont" /\ ret.some) =>
          /\ last.kind = "cont"
          /\ last.nest = Len(stack) + 1
          /\ last.ray = Top.sr.ray
          /\ last.depth = Top.depth - 1
          /\ last.max_depth = Top.max_depth
          /\ ret.color = last.color

\* C16 witness: the light contribution and the attenuated continuation color
\* add up to more than 1 in a channel, and the clamp returned 1
C16_Witness ==
    /\ last.outcome = "bounced"
    /\ last.nlight > 0
    /\ last.acc # Black
    /\ last.target # Black
    /\ \E k \in 1..3 : RGt(Unclamped(last, k), One) /\ last.color[k] = One

----------------------------------------------------------------------------
(* ray_color: the light-sampling gate *)

\* the invocation f has traced a light-sampling ray
Sampled(f) == f.nlight > 0
GateCondition(f) == Len(lights) > 0 /\ f.depth > f.max_depth - 2
\* f belongs to the path of the top-level call: the call itself or a
\* continuation of it, not a light-sampling sub-call
OnPath(f) == f.kind \in {"top", "cont"} /\ f.max_depth = scene.max_depth
TwoLevels(f) == f.depth \in {scene.max_depth, scene.max_depth - 1}

\* C17: an invocation traces light-sampling rays only if the lights list is
\* non-empty and its remaining depth > max_depth - 2; in a scene without an
\* emissive object no light-sampling ray is ever traced; along the path of a
\* top-level call with remaining depth = max_depth only the invocations at
\* the two levels max_depth and max_depth - 1 sample lights.
C17_GateTwoLevels ==
    /\ \A k \in DOMAIN stack :
          /\ Sampled(stack[k]) => GateCondition(stack[k])
          /\ stack[k].kind = "light" => Len(lights) > 0
          /\ (OnPath(stack[k]) /\ Sampled(stack[k])) => TwoLevels(stack[k])
    /\ last.outcome # "none" =>
          /\ Sampled(last) => GateCondition(last)
          /\ last.kind = "light" => Len(lights) > 0
          /\ (OnPath(last) /\ Sampled(last)) => TwoLevels(last)

\* C17 witness: in a scene with a light and max_depth 3 the third bounce of
\* the path, at remaining depth 1, went on without sampling the light
C17_Witness ==
    /\ last.outcome = "bounced"
    /\ last.kind = "cont"
    /\ Len(lights) > 0
    /\ last.max_depth = 3
    /\ last.depth = 1
    /\ last.nlight = 0
    /\ Len(stack) = 2
    /\ stack[1].nlight > 0 /\ stack[2].nlight > 0

----------------------------------------------------------------------------
(* ray_color: the light-sampling block *)

\* the ray from the hit point of f toward the center of emitter i
TowardLight(f, i) == Ray(f.hit.point, VSub(lights[i].center, f.hit.point))
\* channel k of the sum over the first n emitters of attenuation * color
RECURSIVE LightSum(_, _, _)
LightSum(f, n, k) ==
    IF n = 0 THEN Zero
    ELSE FAdd(LightSum(f, n - 1, k), FMul(f.albedo[k], f.lcolors[n][k]))
Averaged(f, k) == FDiv(LightSum(f, Len(lights), k), FromInt(Len(lights)))
\* f has traced one ray per emitter and holds the averaged contribution
SampledFully(f) ==
    /\ f.nlight = Len(lights)
    /\ Len(f.lcolors) = Len(lights)
    /\ \A k \in 1..3 : f.acc[k] = Averaged(f, k)
IsLightCall(g, f) ==
    /\ g.kind = "light"
    /\ g.ray = TowardLight(f, f.li)
    /\ g.max_depth = 2
    /\ g.depth = 1

\* C18: when the gate fires at a hit, exactly one ray per emissive object is
\* traced, from the hit point toward that object's center, each by a
\* ray_color sub-call with max_depth 2 (and remaining depth 1), and the light
\* contribution per channel is the sum over the emitters of
\* attenuation * sub-call color, divided by the number of emitters.
C18_OneRayPerEmitter ==
    /\ \A j \in DOMAIN stack :
          /\ (stack[j].at = "cont" /\ Sampled(stack[j])) => SampledFully(stack[j])
          /\ stack[j].at = "lights" =>
                /\ stack[j].li \in 1..Len(lights)
                /\ stack[j].nlight = stack[j].li
                /\ Len(stack[j].lcolors) = stack[j].li - 1
                /\ j < Len(stack) => IsLightCall(stack[j + 1], stack[j])
          /\ stack[j].kind = "light" => (j > 1 /\ stack[j - 1].at = "lights")
    /\ (last.outcome # "none" /\ Sampled(last)) => SampledFully(last)
    /\ (Running /\ Top.at = "lights" /\ ret.some) =>
          /\ IsLightCall(last, Top)
          /\ last.nest = Len(stack) + 1
          /\ ret.color = last.color

\* C18 witness: two emitters were sampled at a hit, their rays returned
\* different colors, and the invocation went on with the average
C18_Witness ==
    /\ last.outcome = "bounced"
    /\ Len(lights) = 2
    /\ last.nlight = 2
    /\ last.lcolors[1] # last.lcolors[2]
    /\ last.acc # Black
    /\ SampledFully(last)

----------------------------------------------------------------------------
(* ray_color: what a light-sampling ray sees *)

LightCallReturned == last.outcome # "none" /\ last.kind = "light"
\* the hit of a ray in the scene with the non-emissive objects taken out
EmitterAlone(ray) == hit_world(lights, ray, T_MIN, F64_MAX)
NearestOfAll(ray) == hit_world(scene.objects, ray, T_MIN, F64_MAX)

\* C19 as stated: a non-emissive object between the hit point and the
\* emitter's center does not change what the emitter adds, that is, the
\* sub-call of a light ray returns what it returns with the emitters alone
\* in the scene: the emitter is hit and its white comes back.
C19_Unoccluded ==
    LightCallReturned =>
        /\ last.hit = EmitterAlone(last.ray)
        /\ last.color = White

\* C19 amended: the sub-call of a light ray shades the nearest object the ray
\* hits in the whole object list, emissive or not.  It returns the emitter's
\* white only if an emitter is that nearest hit; a non-emissive object in
\* front of the emitter is shaded in its place, at remaining depth 1: its
\* continuation ray returns black, so the sub-call returns the clamped light
\* contribution of the occluder's own light sampling, black if its gate
\* stayed closed.
C19_NearestObjectShaded ==
    LightCallReturned =>
        /\ last.hit = NearestOfAll(last.ray)
        /\ last.hit.some
        /\ RLe(last.hit.t, EmitterAlone(last.ray).t)
        /\ last.hit.material.kind = "Light" => last.color = White
        /\ last.hit.material.kind # "Light" =>
              /\ last.outcome \in {"bounced", "absorbed"}
              /\ last.target = Black
              /\ last.color = CClamp(last.acc)
              /\ last.nlight = 0 => last.color = Black

\* C19 witness: the ray from the wall toward the light above was stopped by
\* the sphere between them and its sub-call returned black
C19_Witness ==
    /\ LightCallReturned
    /\ last.ray.origin = V3(-1, -3, 0)
    /\ last.hit.material.kind = "Metal"
    /\ last.hit.point = V3(-1, -1, 0)
    /\ RLt(last.hit.t, EmitterAlone(last.ray).t)
    /\ EmitterAlone(last.ray).material.kind = "Light"
    /\ last.color = Black


----------------------------------------------------------------------------
(* Glass::scatter *)

\* the refraction ratio of the call in hin: 1/ior on a front face, ior inside
GlassRatio ==
    IF hin.hit_record.front_face THEN RDiv(One, hin.m.ior) ELSE hin.m.ior
GlassIncoming == UnitVector(hin.ray.direction)
GlassCosTheta == RMin(Dot(VNeg(GlassIncoming), hin.hit_record.normal), One)
GlassSinTheta == RSqrt(RSub(One, RMul(GlassCosTheta, GlassCosTheta)))
\* total internal reflection, or the Schlick reflectance above the draw
GlassReflects ==
    \/ RGt(RMul(GlassRatio, GlassSinTheta), One)
    \/ RGt(reflectance(GlassCosTheta, GlassRatio), hin.draw)

\* C21: Glass scatter never absorbs: it returns a ray that starts at the hit
\* point, with attenuation exactly white, on the reflection branch and on the
\* refraction branch alike; the refraction ratio is 1/ior when front_face is
\* true and ior otherwise.
C21_GlassNeverAbsorbs ==
    (pc = "scattered" /\ hin.m.kind = "Glass") =>
        /\ hout.some
        /\ hout.sr.some
        /\ hout.sr.ray.origin = hin.hit_record.point
        /\ hout.attenuation = White
        /\ hout.sr.ray.direction =
              IF GlassReflects
              THEN reflect(GlassIncoming, hin.hit_record.normal)
              ELSE refract(GlassIncoming, hin.hit_record.normal, GlassRatio)

\* C21 witness: a ray inside the glass sphere meets the surface obliquely,
\* below the critical angle, and is refracted out of it
C21_Witness ==
    /\ pc = "scattered"
    /\ hin.m.kind = "Glass"
    /\ ~hin.hit_record.front_face
    /\ RGt(GlassSinTheta, Zero)
    /\ ~GlassReflects
    /\ hout.some
    /\ hout.sr.ray.direction # reflect(GlassIncoming, hin.hit_record.normal)
    /\ hout.sr.ray.direction # GlassIncoming


----------------------------------------------------------------------------
(* Texture::get_albedo on bounded inputs: a texture of width x height pixels
   whose bytes are all different, u, v and h_offset in steps of 1/UVSteps *)

MaxTexWidth == 2
MaxTexHeight == 2
UVSteps == 4

TexOffsets == {Q(k, UVSteps) : k \in 0..(2 * UVSteps)}
Textures ==
    {Texture(White, TexBytes(w, h), w, h, off) :
        w \in 1..MaxTexWidth, h \in 1..MaxTexHeight, off \in TexOffsets}
\* a configuration that declares a height of 0 for an image of one row
ZeroHeightTextures ==
    {Texture(White, TexBytes(w, 1), w, 0, off) :
        w \in 1..MaxTexWidth, off \in TexOffsets}
UnitSteps == {Q(k, UVSteps) : k \in 0..UVSteps}

AlbedoCall(tex, u, v, build) == [tex |-> tex, u |-> u, v |-> v, build |-> build]

TextureInit ==
    /\ pc = "get_albedo"
    /\ \E tex \in Textures \cup ZeroHeightTextures, u \in UnitSteps, v \in UnitSteps,
          build \in Builds :
          hin = AlbedoCall(tex, u, v, build)
    /\ hout = Absorbed
    /\ scene = NoScene
    /\ lights = <<>>
    /\ stack = <<>>
    /\ ret = NoReturn
    /\ last = NoLast
    /\ calls = 0
    /\ rng = 0
    /\ env = NoEnv
    /\ pixels = <<>>
    /\ bands = <<>>
    /\ writers = <<>>
    /\ written = <<>>

\* self.get_albedo(hit_record.u, hit_record.v) returns a color
T_GetAlbedo ==
    /\ pc = "get_albedo"
    /\ ~get_albedo(hin.tex, hin.u, hin.v, hin.build).panic
    /\ hout' = get_albedo(hin.tex, hin.u, hin.v, hin.build)
    /\ pc' = "returned"
    /\ UNCHANGED <<hin, traceVars, renderVars>>

\* self.height - 1 or the arithmetic of base_pixel overflows in a debug
\* build, or one of the three indexings is out of bounds
T_GetAlbedoPanics ==
    /\ pc = "get_albedo"
    /\ get_albedo(hin.tex, hin.u, hin.v, hin.build).panic
    /\ hout' = Panicked
    /\ pc' = "panicked"
    /\ UNCHANGED <<hin, traceVars, renderVars>>

TextureNext == T_GetAlbedo \/ T_GetAlbedoPanics

SpecTexture == TextureInit /\ [][TextureNext]_vars

\* the texture of the call is an image of width x height pixels
TextureWhole == Len(hin.tex.pixels) = 3 * hin.tex.width * hin.tex.height
\* x mod 1 of a finite value
Mod1(x) == RSub(x, RFloor(x))
\* the pixel of tex at a column and a row
TexelAt(tex, column, row) ==
    <<TexelChannel(tex.pixels[3 * (row * tex.width + column) + 1]),
      TexelChannel(tex.pixels[3 * (row * tex.width + column) + 2]),
      TexelChannel(tex.pixels[3 * (row * tex.width + column) + 3])>>
\* column floor(rotate(u) * width) with rotate(u) = (u + h_offset) mod 1
RotatedColumn ==
    U64Int(FloorAsU64(RMul(Mod1(RAdd(hin.u, hin.tex.h_offset)), FromInt(hin.tex.width))))
\* row floor((1 - v) * (height - 1))
FlippedRow ==
    U64Int(FloorAsU64(RMul(RSub(One, hin.v), FromInt(hin.tex.height - 1))))

\* C22: for every u and v in [0,1] and every horizontal offset, the
\* attenuation of a textured material is the texture pixel at column
\* floor(rotate(u) * width) and row floor((1 - v) * (height - 1)), where
\* rotate(u) = (u + h_offset) mod 1.
C22_TexturePixel ==
    (pc = "returned" /\ TextureWhole) =>
        hout.color = TexelAt(hin.tex, RotatedColumn, FlippedRow)

\* the column get_albedo computes
CodeColumn ==
    U64Int(FloorAsU64(RMul(TextureRot(RAdd(hin.u, hin.tex.h_offset)),
                           FromInt(hin.tex.width))))
OffsetInUnit == RGe(hin.tex.h_offset, Zero) /\ RLe(hin.tex.h_offset, One)

\* C25: for every u and v in [0,1] and every horizontal offset in [0,1], the
\* byte indices base_pixel, base_pixel + 1 and base_pixel + 2 of get_albedo
\* lie inside the pixel buffer of length width * height * 3, and the column
\* index floor(rot * width) is strictly less than width.
C25_TextureInBounds ==
    (pc # "get_albedo" /\ OffsetInUnit /\ TextureWhole) =>
        /\ pc = "returned"
        /\ CodeColumn < hin.tex.width


----------------------------------------------------------------------------
(* render_line: the samples of a pixel *)

\* The 8-bit channel of a mean as the claim states it, without the code's
\* arithmetic: byte is the multiple of 1/255 nearest to the square root of the
\* mean, the mean taken in f64.  The f32 operations of the code (the rounded
\* reciprocal, the product, the root, the scaling by 255) move the value by
\* less than a ten-thousandth of a byte step; ByteSlack of a step is allowed
\* at the boundary between two bytes.  A mean below 0 gives 0, a mean above 1
\* gives 255, a mean that is no number (no sample: 0/0) the byte of NaN.
ByteSlack == Q(1, 1024)
ByteLow(byte) == RDiv(RSub(RSub(FromInt(byte), Half), ByteSlack), FromInt(255))
ByteHigh(byte) == RDiv(RAdd(RAdd(FromInt(byte), Half), ByteSlack), FromInt(255))
MeanInByte(mean, byte) ==
    IF IsNaN(mean) THEN byte = env.nan_byte
    ELSE /\ byte = 0 \/ RGe(mean, RMul(ByteLow(byte), ByteLow(byte)))
         /\ byte = 255 \/ RLe(mean, RMul(ByteHigh(byte), ByteHigh(byte)))
MeanByte(total, spp, byte) == MeanInByte(RDiv(total, FromInt(spp)), byte)
\* the three bytes the buffer holds for pixel x of band b
BytesOf(b, x) ==
    <<pixels[bands[b].start + 3 * x + 1],
      pixels[bands[b].start + 3 * x + 2],
      pixels[bands[b].start + 3 * x + 3]>>

\* C23: for every pixel of every scanline render_line evaluates exactly
\* samples_per_pixel top-level ray_color calls, each with remaining_depth =
\* max_depth = scene.max_depth, the sum kept for the pixel is the
\* per-channel sum of those samples, and each byte written is that sum
\* divided by samples_per_pixel, square-rooted and converted to 8 bits.  The
\* sums are compared with the samples once the parallel loop has ended, for
\* every pixel stored by then.
C23_SamplesPerPixel ==
    \A b \in DOMAIN bands :
        /\ Len(bands[b].stored) = bands[b].x
        /\ \A x \in 1..Len(bands[b].stored) :
              /\ Len(bands[b].stored[x].args) = scene.samples_per_pixel
              /\ \A s \in 1..Len(bands[b].stored[x].args) :
                    bands[b].stored[x].args[s] = <<scene.max_depth, scene.max_depth>>
              /\ pc # "par" =>
                    bands[b].stored[x].sum
                        = SumOfSamples(x - 1, bands[b].i, scene.samples_per_pixel)
              /\ \A k \in 1..3 :
                    MeanByte(bands[b].stored[x].sum[k], scene.samples_per_pixel,
                             BytesOf(b, x - 1)[k])

\* C23 witness: a band has stored a pixel of three samples or more, two of
\* them of different colors; its bytes are neither those of the sum without
\* the division nor those of its last sample alone, and the next pixel has
\* other bytes
C23_Witness ==
    /\ scene.samples_per_pixel >= 3
    /\ \E b \in DOMAIN bands :
          /\ bands[b].pc = "done"
          /\ Len(bands[b].stored) = 2
          /\ Len(bands[b].stored[1].args) = scene.samples_per_pixel
          /\ SampleOutcome(scene, lights, env, 0, bands[b].i, 0).color
                # SampleOutcome(scene, lights, env, 0, bands[b].i, 1).color
          /\ BytesOf(b, 0) # PixelBytes(bands[b].stored[1].sum, 1, env.nan_byte)
          /\ BytesOf(b, 0)
                # PixelBytes(SampleOutcome(scene, lights, env, 0, bands[b].i,
                                           scene.samples_per_pixel - 1).color,
                             1, env.nan_byte)
          /\ BytesOf(b, 0) # BytesOf(b, 1)


----------------------------------------------------------------------------
(* ray_color: the subtraction max_depth - 2 of the gate *)

\* C24: for every max_depth >= 1 and any number of emissive objects the gate
\* comparison remaining_depth > max_depth - 2 is evaluated without unsigned
\* underflow of max_depth - 2, in particular for max_depth = 1 with a light
\* in the scene: no invocation with max_depth >= 1 ends in the overflow panic
\* of the subtraction.
C24_GateNoUnderflow ==
    pc = "panicked" =>
        ~(/\ Top.at = "gate"
          /\ Top.max_depth >= 1
          /\ Len(lights) >= 1
          /\ GateUnderflows(Top.max_depth))


----------------------------------------------------------------------------
(* ray_color: the range of the colors it returns *)

InUnit(x) == RGe(x, Zero) /\ RLe(x, One)

\* C26: every color returned by ray_color has each channel in [0, 1], for
\* every scene, including materials whose configured albedo has components
\* outside [0, 1], for every sky configuration and every remaining_depth.
C26_ColorInUnit ==
    last.outcome # "none" =>
        InUnit(last.color[1]) /\ InUnit(last.color[2]) /\ InUnit(last.color[3])


----------------------------------------------------------------------------
(* ray_color without emissive objects *)

\* C27: when the scene contains no emissive object, a top-level call started
\* with remaining_depth = max_depth makes at most one recursive call per
\* invocation, remaining_depth decreases by exactly 1 at each of them, and
\* the whole evaluation consists of at most max_depth + 1 invocations.
C27_UnlitChain ==
    lights = <<>> =>
        /\ stack # <<>> => stack[1].depth = scene.max_depth
        /\ \A k \in DOMAIN stack :
              /\ stack[k].nsub <= 1
              /\ stack[k].nlight = 0
              /\ stack[k].max_depth = scene.max_depth
              /\ k > 1 => /\ stack[k].kind = "cont"
                          /\ stack[k - 1].nsub = 1
                          /\ stack[k].depth = stack[k - 1].depth - 1
        /\ calls <= scene.max_depth + 1

\* C27 witness: a call in a scene without lights has returned after
\* max_depth + 1 invocations, each but the last with one continuation call
C27_Witness ==
    /\ pc = "done"
    /\ lights = <<>>
    /\ scene.max_depth = MaxDepth
    /\ calls = scene.max_depth + 1
    /\ last.nsub = 1
    /\ last.made = scene.max_depth
    /\ last.outcome = "bounced"


----------------------------------------------------------------------------
(* render: what the buffer holds when the parallel loop has returned *)

\* the scanline that byte k (1-based) of the buffer belongs to
ScanlineOf(k) == (k - 1) \div (scene.width * 3)

\* C28: for width >= 1 and height >= 1, when the parallel loop of render has
\* completed every one of the width * height pixels has been written exactly
\* once: the worker of scanline y writes the three bytes of each x in
\* 0..width of its band once and writes nothing else, and no byte of the
\* buffer is left unwritten at its initial zero fill.
C28_EveryPixelOnce ==
    (pc \in {"joined", "written"} /\ scene.width >= 1 /\ scene.height >= 1) =>
        /\ Len(pixels) = scene.width * scene.height * 3
        /\ DOMAIN writers = DOMAIN pixels
        /\ \A k \in DOMAIN writers : writers[k] = <<ScanlineOf(k)>>
        /\ \A b \in DOMAIN bands :
              /\ bands[b].x = scene.width
              /\ Len(bands[b].stored) = scene.width

\* C28 witness: the loop has returned for a 2 by 2 image, each of its twelve
\* bytes written once by the band of its scanline, and not all of them zero
C28_Witness ==
    /\ pc = "joined"
    /\ scene.width = 2 /\ scene.height = 2
    /\ Len(bands) = 2
    /\ \A k \in 1..12 : writers[k] = <<ScanlineOf(k)>>
    /\ \E k \in 1..12 : pixels[k] # 0


----------------------------------------------------------------------------
(* render: the buffer against a sequential rendering *)

\* the buffer after render_line has run for y = 0, 1, .. in this order with
\* the draws of the run: byte k belongs to pixel ((k-1) div 3) mod width of
\* scanline (k-1) div (3 * width)
SequentialRender ==
    [k \in 1..BufferLen(scene.width, scene.height) |->
        ExpectedPixel(((k - 1) \div 3) % scene.width, ScanlineOf(k))[((k - 1) % 3) + 1]]

\* C29: the finished pixel buffer does not depend on the order or
\* interleaving in which the bands are scheduled: for fixed per-band random
\* draws every schedule of the band tasks produces the same buffer as
\* rendering the scanlines sequentially from top to bottom.  A band that is
\* done has left the bytes of the sequential rendering in its chunk, whatever
\* the other bands have done by then.
C29_ScheduleIndependent ==
    /\ pc = "par" =>
          \A b \in DOMAIN bands :
              bands[b].pc = "done" =>
                  \A x \in 0..(scene.width - 1) :
                      BytesOf(b, x) = ExpectedPixel(x, bands[b].i)
    /\ pc \in {"joined", "written"} => pixels = SequentialRender

\* C29 witness: the band of the second scanline is done before the band of
\* the first has started, and the chunk of the second holds colors
C29_Witness ==
    /\ pc = "par"
    /\ Len(bands) = 2
    /\ scene.width = 2
    /\ bands[1].pc = "queued"
    /\ bands[2].pc = "done"
    /\ \E k \in 1..bands[2].len : pixels[bands[2].start + k] # 0
    /\ \A k \in 1..bands[1].len : pixels[bands[1].start + k] = 0

====
